---------------------------- MODULE Spec2Model ----------------------------
(***************************************************************************)
(* State-machine model of the Fusion OS kernel core (gecko): the physical  *)
(* memory manager (buddy allocator), the page-table engine, the virtual    *)
(* memory manager, the scheduler and the IPC subsystem.                     *)
(*                                                                         *)
(* Physical addresses are page aligned throughout and are modelled by      *)
(* their frame number (address / PAGE_SIZE); NULL is frame 0.              *)
(***************************************************************************)
EXTENDS Integers, Naturals, Sequences, FiniteSets, TLC

VARIABLES
    \* ---- pmm.c ----
    pmm,                \* global_pmm and pmm_initialized, with the memory_block_t.order
                        \* word at the start of every frame (hdr_order); free_lists[k] is
                        \* the chain of blocks of order k, head first
    memory_regions,     \* memory_regions[0 .. memory_region_count-1]
    \* ---- callers of the allocator (bookkeeping of the environment) ----
    allocated,          \* blocks returned by pmm_alloc_pages and not yet freed
    handed,             \* frames the boot code has handed to the allocator
    last,               \* the last call: operation, arguments, result
    \* ---- physical memory ----
    mem,                \* the object each frame holds: a message, a message queue,
                        \* a page table, an address space
    \* ---- ipc.c ----
    ipc,                \* ipc_initialized, system_message_queue, registered_services,
                        \* service_registry, service_count
    ipc_last,           \* the last ipc call: whether it returned
    sent_log,           \* per queue, the messages ipc_send_message accepted, in order
    recv_log,           \* per queue, the messages ipc_receive_message returned, in order
    \* ---- vmm.c ----
    vmm,                \* vmm_initialized, kernel_address_space
    vmm_last,           \* the last vmm call: operation, arguments, result
    \* ---- scheduler.c ----
    sched,              \* tasks, the three queues, current_task, next_task_id,
                        \* task_count, scheduler_running
    sched_last          \* the last scheduler call: operation, result, whether it returned

pmm_vars == <<pmm, memory_regions>>
env_vars == <<allocated, handed, last>>
ipc_vars == <<ipc, ipc_last, sent_log, recv_log>>
\* what the operations of pmm.c called on their own leave alone
vmm_vars == <<vmm, vmm_last>>
sched_vars == <<sched, sched_last>>
non_pmm_vars == <<mem, ipc_vars, vmm_vars, sched_vars>>
vars == <<pmm_vars, env_vars, mem, ipc_vars, vmm_vars, sched_vars>>

---------------------------------------------------------------------------
(* Constants of the program *)

PAGE_SIZE == 4096
MAX_ORDER == 20
MAX_MEMORY_REGIONS == 32
MEMORY_AVAILABLE == 0
MEMORY_RESERVED == 1
NULL == 0

(* Bounds of the model *)

\* number of physical frames whose contents are modelled: frames 0 .. NFrames-1
NFrames == 16
\* largest order the boot code hands to the allocator in one pmm_free_pages call
MaxSeedOrder == 2
\* largest order requested from pmm_alloc_pages
MaxReqOrder == 2

Frames == 0 .. (NFrames - 1)
\* content of a word nobody has written since boot, or that its owner may
\* have overwritten: a read yields an arbitrary value
UNKNOWN == -1

Min(a, b) == IF a < b THEN a ELSE b

---------------------------------------------------------------------------
(* pmm.c *)

pages_from_order(order) == 2 ^ order

RECURSIVE order_from_pages_loop(_, _)
order_from_pages_loop(pages, order) ==
    IF pages_from_order(order) < pages
    THEN order_from_pages_loop(pages, order + 1)
    ELSE order

order_from_pages(pages) == order_from_pages_loop(pages, 0)

\* block_addr ^ (pages_from_order(order) * PAGE_SIZE), on frame numbers
find_buddy(block, order) ==
    IF (block \div pages_from_order(order)) % 2 = 1
    THEN block - pages_from_order(order)
    ELSE block + pages_from_order(order)

BlockFrames(block, order) == block .. (block + pages_from_order(order) - 1)

InList(block, list) == \E i \in 1 .. Len(list) : list[i] = block

\* *prev_ptr = buddy->next : unlink the first occurrence of buddy
Unlink(list, block) ==
    LET i == CHOOSE j \in 1 .. Len(list) : list[j] = block /\ \A m \in 1 .. (j - 1) : list[m] # block
    IN  SubSeq(list, 1, i - 1) \o SubSeq(list, i + 1, Len(list))

WriteHdr(hdr, block, order) ==
    IF block \in Frames THEN [hdr EXCEPT ![block] = order] ELSE hdr

ReadHdr(hdr, block) == IF block \in Frames THEN hdr[block] ELSE UNKNOWN

\* the owner of an allocated block writes its own data over the block
owner_writes(p, block, order) ==
    IF block = NULL THEN p
    ELSE [p EXCEPT !.hdr_order = [f \in Frames |->
                        IF f \in BlockFrames(block, order) THEN UNKNOWN ELSE @[f]]]

\* the available entries of a memory map
RECURSIVE AvailableOf(_)
AvailableOf(map) ==
    IF map = <<>> THEN <<>>
    ELSE IF Head(map).type = MEMORY_AVAILABLE
         THEN <<Head(map)>> \o AvailableOf(Tail(map))
         ELSE AvailableOf(Tail(map))

RECURSIVE SumPages(_)
SumPages(regions) ==
    IF regions = <<>> THEN 0
    ELSE (Head(regions).length \div PAGE_SIZE) + SumPages(Tail(regions))

\* memset(&global_pmm, 0, sizeof(pmm_t)); pmm_initialized = 1
pmm_init(p) ==
    IF p.initialized # 0 THEN p
    ELSE [p EXCEPT !.initialized = 1,
                   !.free_lists = [k \in 0 .. MAX_ORDER |-> <<>>],
                   !.memory_start = 0, !.memory_end = 0,
                   !.total_pages = 0, !.free_pages = 0]

\* (uint32)(pages * PAGE_SIZE) / (1024 * 1024 * 1024): the product is reduced
\* modulo 2^32, i.e. the page count modulo 2^20, and 2^30 bytes are 2^18 pages
gb_of_pages(pages) == (pages % (2 ^ 20)) \div (2 ^ 18)

validate_allocation(p, order) ==
    LET requested_pages == pages_from_order(order)
        total_memory_gb == gb_of_pages(p.total_pages)
        requested_gb == gb_of_pages(requested_pages)
    IN  /\ ~(requested_gb > total_memory_gb /\ total_memory_gb > 0)
        /\ ~(requested_pages > p.total_pages \div 2)
        /\ ~(requested_pages > (100 * 1024 * 1024) \div PAGE_SIZE)

\* while (current_order <= MAX_ORDER && free_lists[current_order] == NULL) current_order++
RECURSIVE find_order(_, _)
find_order(lists, current_order) ==
    IF current_order <= MAX_ORDER /\ lists[current_order] = <<>>
    THEN find_order(lists, current_order + 1)
    ELSE current_order

\* while (current_order > order): pop the head of free_lists[current_order], push
\* its upper half on free_lists[current_order - 1]
RECURSIVE split_loop(_, _, _, _)
split_loop(lists, hdr, current_order, order) ==
    IF current_order > order
    THEN LET block == Head(lists[current_order])
             popped == [lists EXCEPT ![current_order] = Tail(@)]
             buddy_order == current_order - 1
             buddy == block + pages_from_order(buddy_order)
         IN  split_loop([popped EXCEPT ![buddy_order] = <<buddy>> \o @],
                        WriteHdr(hdr, buddy, buddy_order), buddy_order, order)
    ELSE [lists |-> lists, hdr |-> hdr]

\* take_block that returns the head of free_lists[order] without unlinking it
take_block_no_unlink(p, order, s) ==
    [ret |-> Head(s.lists[order]),
     pmm |-> [p EXCEPT !.free_lists = s.lists,
                       !.free_pages = @ - pages_from_order(order),
                       !.hdr_order = s.hdr]]

\* block = free_lists[order]; free_lists[order] = block->next; free_pages -= ...
\* on the lists s that the split loop left
take_block(p, order, s) ==
    [ret |-> Head(s.lists[order]),
     pmm |-> [p EXCEPT !.free_lists = [s.lists EXCEPT ![order] = Tail(@)],
                       !.free_pages = @ - pages_from_order(order),
                       !.hdr_order = s.hdr]]

\* an allocation that counts the pages off although it found no block
alloc_at_counting(p, order, current_order) ==
    IF current_order > MAX_ORDER
    THEN [ret |-> NULL, pmm |-> [p EXCEPT !.free_pages = @ - pages_from_order(order)]]
    ELSE take_block(p, order, split_loop(p.free_lists, p.hdr_order, current_order, order))

\* the allocation once the smallest order with a free block is known
alloc_at(p, order, current_order) ==
    IF current_order > MAX_ORDER THEN [ret |-> NULL, pmm |-> p]
    ELSE take_block(p, order, split_loop(p.free_lists, p.hdr_order, current_order, order))

\* pmm_alloc_pages(order) in allocator state p: the block returned and the new state
pmm_alloc_pages(p, order) ==
    IF p.initialized = 0 \/ order > MAX_ORDER THEN [ret |-> NULL, pmm |-> p]
    ELSE IF ~validate_allocation(p, order) THEN [ret |-> NULL, pmm |-> p]
    ELSE alloc_at(p, order, find_order(p.free_lists, order))

pmm_alloc_page(p) == pmm_alloc_pages(p, 0)

\* a coalescing loop that never merges
coalesce_never(block, order, lists, hdr) ==
    {[block |-> block, order |-> order, lists |-> lists, hdr |-> hdr]}

\* the coalescing loop of pmm_free_pages: the set of its possible outcomes (the
\* read of buddy->order yields an arbitrary value when nobody wrote that word)
RECURSIVE coalesce(_, _, _, _)
coalesce(block, order, lists, hdr) ==
    LET stop == {[block |-> block, order |-> order, lists |-> lists, hdr |-> hdr]}
    IN  IF order >= MAX_ORDER THEN stop
        ELSE LET buddy == find_buddy(block, order)
                 seen == ReadHdr(hdr, buddy)
                 merged == Min(block, buddy)
             IN  (IF seen # order THEN stop ELSE {})
                 \cup
                 (IF seen = order \/ seen = UNKNOWN
                  THEN IF InList(buddy, lists[order])
                       THEN coalesce(merged, order + 1,
                                     [lists EXCEPT ![order] = Unlink(@, buddy)],
                                     WriteHdr(hdr, merged, order + 1))
                       ELSE stop
                  ELSE {})

\* pmm_free_pages that forgets to update global_pmm.free_pages
pmm_free_pages_no_count(p, pages, order) ==
    IF p.initialized = 0 \/ order > MAX_ORDER \/ pages = NULL
    THEN {p}
    ELSE {[p EXCEPT !.free_lists = [c.lists EXCEPT ![c.order] = <<c.block>> \o @],
                    !.hdr_order = c.hdr] :
          c \in coalesce(pages, order, p.free_lists, WriteHdr(p.hdr_order, pages, order))}

\* pmm_free_pages(pages, order) in allocator state p: the possible new states
pmm_free_pages(p, pages, order) ==
    IF p.initialized = 0 \/ order > MAX_ORDER \/ pages = NULL
    THEN {p}
    ELSE {[p EXCEPT !.free_lists = [c.lists EXCEPT ![c.order] = <<c.block>> \o @],
                    !.free_pages = @ + pages_from_order(c.order),
                    !.hdr_order = c.hdr] :
          c \in coalesce(pages, order, p.free_lists, WriteHdr(p.hdr_order, pages, order))}

pmm_free_page(p, page) == pmm_free_pages(p, page, 0)

\* the state pmm_set_memory_map(map, count) leaves: the possible new allocator
\* states (memory_regions[memory_region_count - 1] is read out of bounds when
\* the map holds no available entry) with the regions recorded
pmm_set_memory_map(p, map) ==
    LET regions == SubSeq(AvailableOf(map), 1, Min(Len(AvailableOf(map)), MAX_MEMORY_REGIONS))
        q == [pmm_init(p) EXCEPT !.total_pages = @ + SumPages(regions),
                                 !.free_pages = @ + SumPages(regions)]
    IN  IF regions # <<>>
        THEN {[regions |-> regions,
               pmm |-> [q EXCEPT !.memory_start = regions[1].base,
                                 !.memory_end = regions[Len(regions)].base
                                                + regions[Len(regions)].length]]}
        ELSE {[regions |-> regions,
               pmm |-> [q EXCEPT !.memory_start = 0, !.memory_end = garbage]] :
              garbage \in {0, PAGE_SIZE}}

\* the uint32_t product pages * PAGE_SIZE, as its signed 32-bit representative:
\* the low 20 bits of pages, shifted by 12
u32_bytes(pages) ==
    IF pages % (2 ^ 20) >= 2 ^ 19 THEN ((pages % (2 ^ 20)) - 2 ^ 20) * PAGE_SIZE
    ELSE (pages % (2 ^ 20)) * PAGE_SIZE

pmm_get_total_memory(p) == u32_bytes(p.total_pages)
pmm_get_free_memory(p) == u32_bytes(p.free_pages)
pmm_get_used_memory(p) == u32_bytes(p.total_pages - p.free_pages)

---------------------------------------------------------------------------
(* uint32_t arithmetic: a value is kept as its signed 32-bit representative *)

u32_dec(x) == x - 1
u32_lt(a, b) == IF (a < 0) = (b < 0) THEN a < b ELSE b < 0
u32_ge(a, b) == ~u32_lt(a, b)

---------------------------------------------------------------------------
(* list.c : a list is [head, tail, count]; next and prev give the links of
   every node (a node is named by the object that embeds it, NULL is 0) *)

EmptyList == [head |-> NULL, tail |-> NULL, count |-> 0]

\* a store through a pointer; a store through NULL lands in no modelled node
Store(links, node, value) ==
    IF node = NULL THEN links ELSE [links EXCEPT ![node] = value]

list_init(list) == EmptyList

list_is_empty(list) == list.count = 0

list_get_head(list) == list.head

list_add_tail(list, next, prev, node) ==
    IF list_is_empty(list)
    THEN [list |-> [head |-> node, tail |-> node, count |-> list.count + 1],
          next |-> Store(next, node, NULL),
          prev |-> Store(prev, node, NULL)]
    ELSE LET next1 == Store(next, list.tail, node)
             prev1 == Store(prev, node, list.tail)
             next2 == Store(next1, node, NULL)
         IN  [list |-> [head |-> list.head, tail |-> node, count |-> list.count + 1],
              next |-> next2,
              prev |-> prev1]

list_remove(list, next, prev, node) ==
    IF node = NULL \/ list_is_empty(list)
    THEN [list |-> list, next |-> next, prev |-> prev]
    ELSE LET next1 == IF prev[node] # NULL THEN Store(next, prev[node], next[node]) ELSE next
             head1 == IF prev[node] # NULL THEN list.head ELSE next[node]
             prev1 == IF next1[node] # NULL THEN Store(prev, next1[node], prev[node]) ELSE prev
             tail1 == IF next1[node] # NULL THEN list.tail ELSE prev[node]
         IN  [list |-> [head |-> head1, tail |-> tail1, count |-> list.count - 1],
              next |-> next1,
              prev |-> prev1]

---------------------------------------------------------------------------
(* ipc.c *)

\* scaled: MAX_SERVICES is 64, the system queue takes 1024 messages and a
\* service queue 64
MAX_SERVICES == 2
SystemQueueMax == 2
ServiceQueueMax == 1

IPC_MESSAGE_DATA == 1
IPC_MESSAGE_SYSTEM == 2
IPC_BLOCKING == 1
IPC_NONBLOCKING == 2
\* sizeof(((ipc_message_t*)0)->message_data)
sizeof_message_data == 1024

\* &system_message_queue, a static object outside the frames
system_message_queue_addr == -2

NoObject == [kind |-> "none"]

Slots == 1 .. MAX_SERVICES
\* &service_registry[i] is named i + 1
NoService == [service_name |-> "", service_handler |-> NULL, service_queue |-> NULL,
              next |-> NULL, prev |-> NULL]

\* the links of the message nodes (queue_link) and of the service nodes (service_link)
MessageNext(m) == [f \in Frames |-> IF m[f].kind = "message" THEN m[f].next ELSE NULL]
MessagePrev(m) == [f \in Frames |-> IF m[f].kind = "message" THEN m[f].prev ELSE NULL]
StoreMessageLinks(m, next, prev) ==
    [f \in Frames |-> IF m[f].kind = "message"
                      THEN [m[f] EXCEPT !.next = next[f], !.prev = prev[f]]
                      ELSE m[f]]
ServiceNext(reg) == [i \in {NULL} \cup Slots |-> IF i = NULL THEN NULL ELSE reg[i].next]
ServicePrev(reg) == [i \in {NULL} \cup Slots |-> IF i = NULL THEN NULL ELSE reg[i].prev]
StoreServiceLinks(reg, next, prev) ==
    [i \in Slots |-> [reg[i] EXCEPT !.next = next[i], !.prev = prev[i]]]

\* the message_queue_t a queue pointer designates
QueueAt(k, q) ==
    IF q = system_message_queue_addr THEN k.ipc.system_message_queue ELSE k.mem[q]
SetQueue(k, q, v) ==
    IF q = system_message_queue_addr
    THEN [k EXCEPT !.ipc.system_message_queue = v]
    ELSE [k EXCEPT !.mem[q] = v]

NewQueue(owner, max_messages) ==
    [kind |-> "queue", message_list |-> list_init(EmptyList), owner |-> owner,
     max_messages |-> max_messages, current_messages |-> 0]

\* memcpy(dst, src, n)
memcpy(src, n) == SubSeq(src, 1, n)

ipc_init(k) ==
    IF k.ipc.initialized # 0 THEN k
    ELSE [k EXCEPT !.ipc = [initialized |-> 1,
                            system_message_queue |-> NewQueue(NULL, SystemQueueMax),
                            registered_services |-> list_init(EmptyList),
                            service_registry |-> [i \in Slots |-> NoService],
                            service_count |-> 0]]

\* scheduler.c : task_t* scheduler_get_current_task(void)
scheduler_get_current_task(s) == s.current_task

\* the message written into the page `a` that pmm_alloc_page returned
write_message(k, a, data, length, type, flags) ==
    IF a.ret = NULL THEN [ret |-> NULL, k |-> k]
    ELSE [ret |-> a.ret,
          k |-> [k EXCEPT !.pmm = owner_writes(a.pmm, a.ret, 0),
                          !.mem[a.ret] =
                              [kind |-> "message",
                               message_data |-> memcpy(data, length),
                               message_length |-> length,
                               message_type |-> type,
                               message_flags |-> flags,
                               sender |-> scheduler_get_current_task(k.sched),
                               receiver |-> NULL,
                               next |-> NULL, prev |-> NULL]]]

\* (message_data[length] = '\0' falls inside message_data for length < 1024;
\* for length = 1024 it is the low byte of message_length, which is 0 in 1024
\* and which the assignment of message_length rewrites)
create_message(k, data, length, type, flags) ==
    IF length > sizeof_message_data THEN [ret |-> NULL, k |-> k]
    ELSE write_message(k, pmm_alloc_page(k.pmm), data, length, type, flags)

\* the queue written into the page `a` that pmm_alloc_page returned
write_queue(k, a, owner, max_messages) ==
    IF a.ret = NULL THEN [ret |-> -1, k |-> k]
    ELSE [ret |-> 0,
          k |-> [k EXCEPT !.pmm = owner_writes(a.pmm, a.ret, 0),
                          !.mem[a.ret] = NewQueue(owner, max_messages)]]

alloc_queue(k, owner, max_messages) ==
    write_queue(k, pmm_alloc_page(k.pmm), owner, max_messages)

ipc_create_queue(k0, owner, max_messages) ==
    alloc_queue(ipc_init(k0), owner, max_messages)

\* the queue q once list_add_tail has returned l, the message not counted
enqueued_no_count(k, q, l) ==
    SetQueue([k EXCEPT !.mem = StoreMessageLinks(k.mem, l.next, l.prev)], q,
             [QueueAt(k, q) EXCEPT !.message_list = l.list])

\* the queue q once list_add_tail has returned l: current_messages++
enqueued(k, q, l) ==
    SetQueue([k EXCEPT !.mem = StoreMessageLinks(k.mem, l.next, l.prev)], q,
             [QueueAt(k, q) EXCEPT !.message_list = l.list,
                                   !.current_messages = @ + 1])

\* link message at the tail of queue q and count it
enqueue(k, q, message) ==
    enqueued(k, q, list_add_tail(QueueAt(k, q).message_list,
                                 MessageNext(k.mem), MessagePrev(k.mem), message))

send_fail(k) == [ret |-> -1, k |-> k, queue |-> NULL, message |-> NULL]

\* the second half of ipc_send_message: message ipc_msg goes to the queue q
send_to(k, ipc_msg, q) ==
    IF QueueAt(k, q).current_messages < QueueAt(k, q).max_messages
    THEN [ret |-> 0, k |-> enqueue(k, q, ipc_msg), queue |-> q, message |-> ipc_msg]
    ELSE send_fail(k)

\* ipc_send_message after create_message returned c
send_created(c, destination) ==
    IF c.ret = NULL THEN send_fail(c.k)
    ELSE send_to([c.k EXCEPT !.mem[c.ret].receiver = destination], c.ret,
                 IF destination = NULL THEN system_message_queue_addr ELSE destination)

\* a send that refuses a payload that fills message_data
ipc_send_message_short(k0, destination, data, length, message_type, flags) ==
    IF length = 0 \/ length >= 1024 THEN send_fail(ipc_init(k0))
    ELSE send_created(create_message(ipc_init(k0), data, length, message_type, flags),
                      destination)

\* ipc_send_message: the result, the new state and the queue that took the message
ipc_send_message(k0, destination, data, length, message_type, flags) ==
    IF length = 0 \/ length > 1024 THEN send_fail(ipc_init(k0))
    ELSE send_created(create_message(ipc_init(k0), data, length, message_type, flags),
                      destination)

\* what ipc_receive_message hands to its caller
Received(message) ==
    [data |-> memcpy(message.message_data, message.message_length),
     length |-> message.message_length,
     type |-> message.message_type]

NoOutput == [data |-> <<>>, length |-> 0, type |-> 0]

\* the queue q once list_remove has returned l: current_messages--
dequeued(k, q, l) ==
    SetQueue([k EXCEPT !.mem = StoreMessageLinks(k.mem, l.next, l.prev)], q,
             [QueueAt(k, q) EXCEPT !.message_list = l.list,
                                   !.current_messages = u32_dec(@)])

\* the second half of ipc_receive_message: `message`, in frame `node`, has been
\* removed from queue q, leaving state k
copy_out(k, q, node, message, length) ==
    IF length < message.message_length
    THEN {[ret |-> -1, k |-> k, queue |-> q, out |-> NoOutput, dropped |-> node]}
    ELSE {[ret |-> 0,
           k |-> [k EXCEPT !.pmm = p, !.mem[node] = NoObject],
           queue |-> q, out |-> Received(message), dropped |-> NULL] :
          p \in pmm_free_page(k.pmm, node)}

receive_from(k, q, length) ==
    IF list_is_empty(QueueAt(k, q).message_list)
    THEN {[ret |-> -1, k |-> k, queue |-> q, out |-> NoOutput, dropped |-> NULL]}
    ELSE copy_out(dequeued(k, q, list_remove(QueueAt(k, q).message_list,
                                             MessageNext(k.mem), MessagePrev(k.mem),
                                             list_get_head(QueueAt(k, q).message_list))),
                  q, list_get_head(QueueAt(k, q).message_list),
                  k.mem[list_get_head(QueueAt(k, q).message_list)], length)

\* ipc_receive_message with a buffer of *length bytes: the possible outcomes
\* (the wait loop only counts up to timeout_ms and changes nothing)
ipc_receive_message(k0, source, length) ==
    receive_from(ipc_init(k0),
                 IF source = NULL THEN system_message_queue_addr ELSE source, length)

\* strcmp(service_registry[i].service_name, service_name) == 0 for some i < service_count
already_registered(ipc_state, service_name) ==
    \E i \in Slots : /\ u32_lt(i - 1, ipc_state.service_count)
                     /\ ipc_state.service_registry[i].service_name = service_name

\* the registry once list_add_tail has returned l
service_linked(k, l) ==
    [ret |-> 0,
     k |-> [k EXCEPT !.ipc.service_registry =
                         StoreServiceLinks(k.ipc.service_registry, l.next, l.prev),
                     !.ipc.registered_services = l.list,
                     !.ipc.service_count = @ + 1]]

\* the end of ipc_register_service: the entry is linked and counted
link_service(k, service) ==
    service_linked(k, list_add_tail(k.ipc.registered_services,
                                    ServiceNext(k.ipc.service_registry),
                                    ServicePrev(k.ipc.service_registry), service))

\* the separate queue of the service, in the page `a` that pmm_alloc_page
\* returned, or the system queue when there is no page
set_service_queue(k, a, service) ==
    IF a.ret # NULL
    THEN [k EXCEPT !.pmm = owner_writes(a.pmm, a.ret, 0),
                   !.mem[a.ret] = NewQueue(service, ServiceQueueMax),
                   !.ipc.service_registry[service].service_queue = a.ret]
    ELSE [k EXCEPT !.ipc.service_registry[service].service_queue = system_message_queue_addr]

\* ipc_register_service after ipc_create_queue returned c
service_queue_created(c, service) ==
    IF c.ret = 0
    THEN link_service(set_service_queue(c.k, pmm_alloc_page(c.k.pmm), service), service)
    ELSE link_service(c.k, service)

\* ipc_register_service once the checks have passed, for the entry `service`
new_service(k, service, service_name, service_handler) ==
    service_queue_created(
        ipc_create_queue([k EXCEPT !.ipc.service_registry[service].service_name = service_name,
                                   !.ipc.service_registry[service].service_handler = service_handler],
                         service, ServiceQueueMax),
        service)

register_checked(k, service_name, service_handler) ==
    IF u32_ge(k.ipc.service_count, MAX_SERVICES) THEN [ret |-> -1, k |-> k]
    ELSE IF already_registered(k.ipc, service_name) THEN [ret |-> -1, k |-> k]
    ELSE new_service(k, k.ipc.service_count + 1, service_name, service_handler)

ipc_register_service(k0, service_name, service_handler) ==
    register_checked(ipc_init(k0), service_name, service_handler)

\* the walk of registered_services that ipc_lookup_service and
\* ipc_unregister_service make: the first node from `node` on whose name matches,
\* NULL at the end of the chain; a walk that has made more steps than there are
\* nodes is in a cycle and never ends
WalkFuel == MAX_SERVICES + 1
RECURSIVE find_service(_, _, _, _)
find_service(ipc_state, node, service_name, fuel) ==
    IF node = NULL THEN [node |-> NULL, ends |-> TRUE]
    ELSE IF ipc_state.service_registry[node].service_name = service_name
    THEN [node |-> node, ends |-> TRUE]
    ELSE IF fuel = 0 THEN [node |-> NULL, ends |-> FALSE]
    ELSE find_service(ipc_state, ipc_state.service_registry[node].next, service_name, fuel - 1)

\* ipc_lookup_service once the walk has returned w
looked_up(k, w) ==
    [returns |-> w.ends, k |-> k,
     ret |-> IF w.node = NULL THEN NULL
             ELSE k.ipc.service_registry[w.node].service_handler]

ipc_lookup_service(k0, service_name) ==
    looked_up(ipc_init(k0),
              find_service(ipc_init(k0).ipc, list_get_head(ipc_init(k0).ipc.registered_services),
                           service_name, WalkFuel))

\* ipc_destroy_queue walks the messages of the queue and frees nothing
ipc_destroy_queue(k, queue) == k

\* the registry once list_remove has returned l, the queue of the entry `node`
\* destroyed and service_count--
service_unlinked(k, node, l) ==
    [returns |-> TRUE, ret |-> 0,
     k |-> [(IF k.ipc.service_registry[node].service_queue # NULL
             THEN ipc_destroy_queue(k, k.ipc.service_registry[node].service_queue)
             ELSE k)
            EXCEPT !.ipc.service_registry =
                       StoreServiceLinks(k.ipc.service_registry, l.next, l.prev),
                   !.ipc.registered_services = l.list,
                   !.ipc.service_count = u32_dec(@)]]

\* ipc_unregister_service once the walk has returned w
unregister_found(k, w) ==
    IF ~w.ends THEN [returns |-> FALSE, ret |-> -1, k |-> k]
    ELSE IF w.node = NULL THEN [returns |-> TRUE, ret |-> -1, k |-> k]
    ELSE service_unlinked(k, w.node,
                          list_remove(k.ipc.registered_services,
                                      ServiceNext(k.ipc.service_registry),
                                      ServicePrev(k.ipc.service_registry), w.node))

ipc_unregister_service(k, service_name) ==
    unregister_found(k, find_service(k.ipc, list_get_head(k.ipc.registered_services),
                                     service_name, WalkFuel))

\* the loop of ipc_broadcast_message over registered_services from `node` on;
\* every send takes a frame or fails for good, so after NFrames + 1 sends the
\* state no longer changes, and a walk that long is in a cycle and never ends
BroadcastFuel == NFrames + 1
\* result and the messages accepted so far, after a send that returned r
Count(acc, r) ==
    IF r.ret = 0
    THEN [result |-> acc.result + 1,
          accepted |-> Append(acc.accepted, [queue |-> r.queue, message |-> r.message])]
    ELSE acc

RECURSIVE broadcast_loop(_, _, _, _, _, _, _)
\* the rest of the loop after the send to the queue of `node` returned r
broadcast_sent(r, node, data, length, message_type, acc, fuel) ==
    broadcast_loop(r.k, r.k.ipc.service_registry[node].next, data, length, message_type,
                   Count(acc, r), fuel)

broadcast_loop(k, node, data, length, message_type, acc, fuel) ==
    IF node = NULL THEN [returns |-> TRUE, k |-> k, ret |-> acc.result, accepted |-> acc.accepted]
    ELSE IF fuel = 0
    THEN [returns |-> FALSE, k |-> k, ret |-> acc.result, accepted |-> acc.accepted]
    ELSE broadcast_sent(ipc_send_message(k, k.ipc.service_registry[node].service_queue,
                                         data, length, message_type, IPC_NONBLOCKING),
                        node, data, length, message_type, acc, fuel - 1)

\* ipc_broadcast_message after the send to the system queue returned r
broadcast_services(r, data, length, message_type) ==
    broadcast_loop(r.k, list_get_head(r.k.ipc.registered_services), data, length,
                   message_type, Count([result |-> 0, accepted |-> <<>>], r), BroadcastFuel)

ipc_broadcast_message(k, data, length, message_type) ==
    broadcast_services(ipc_send_message(k, NULL, data, length, message_type, IPC_NONBLOCKING),
                       data, length, message_type)

---------------------------------------------------------------------------
(* page_tables.h, page_tables.c : a flag word is the set of the numbers of
   its set bits; a virtual address is page aligned and is the record of its
   bits 63..48 (hi) and of its four table indices; a page table is the
   record of the entries the virtual addresses of the model select *)

PTE_P == 0
PTE_W == 1
PTE_U == 2
PTE_NX == 63
EntriesPerTable == 512
\* bits 63..48 of an address of the upper half
UpperHalf == 65535

VAddr(hi, pml4, pdpt, pd, pt) ==
    [hi |-> hi, pml4 |-> pml4, pdpt |-> pdpt, pd |-> pd, pt |-> pt]
\* (void*)0
VNULL == VAddr(0, 0, 0, 0, 0)

\* addr + PAGE_SIZE
AddPage(v) ==
    IF v.pt < EntriesPerTable - 1 THEN [v EXCEPT !.pt = @ + 1]
    ELSE IF v.pd < EntriesPerTable - 1 THEN [v EXCEPT !.pt = 0, !.pd = @ + 1]
    ELSE IF v.pdpt < EntriesPerTable - 1 THEN [v EXCEPT !.pt = 0, !.pd = 0, !.pdpt = @ + 1]
    ELSE IF v.pml4 < EntriesPerTable - 1
         THEN [v EXCEPT !.pt = 0, !.pd = 0, !.pdpt = 0, !.pml4 = @ + 1]
    ELSE [v EXCEPT !.pt = 0, !.pd = 0, !.pdpt = 0, !.pml4 = 0,
                   !.hi = (@ + 1) % (UpperHalf + 1)]

RECURSIVE AddPages(_, _)
AddPages(v, n) == IF n = 0 THEN v ELSE AddPages(AddPage(v), n - 1)

\* addr > 0x00007fffffffffff && addr < 0xffff800000000000
in_hole(v) ==
    /\ ~(v.hi = 0 /\ v.pml4 < EntriesPerTable \div 2)
    /\ ~(v.hi = UpperHalf /\ v.pml4 >= EntriesPerTable \div 2)

\* the table entries the model keeps: those the addresses of VirtualPages and
\* of the pages of an allocation select
Indices == {0, 1, 256, 257, 258, 259}

ZeroPte == [addr |-> NULL, bits |-> {}]
\* an entry of a page nobody has written as a page table
UnknownPte == [addr |-> UNKNOWN, bits |-> {}]
\* the values a read of such an entry is followed for: not present, and
\* present with the address bits clear
UnknownReads == {ZeroPte, [addr |-> NULL, bits |-> {PTE_P}]}

pte_present(pte) == PTE_P \in pte.bits
pte_physical_address(pte) == pte.addr
create_pte(physical_addr, flags) == [addr |-> physical_addr, bits |-> flags]

\* memset(page_table, 0, PAGE_SIZE)
ZeroPage == [kind |-> "table", entries |-> [i \in Indices |-> ZeroPte]]
UnknownPage == [kind |-> "table", entries |-> [i \in Indices |-> UnknownPte]]

\* the page at frame t read as an array of pte_t
TableAt(m, t) == IF m[t].kind = "table" THEN m[t] ELSE UnknownPage
Entry(m, t, i) == TableAt(m, t).entries[i]
SetEntry(m, t, i, pte) == [m EXCEPT ![t] = [TableAt(m, t) EXCEPT !.entries[i] = pte]]
\* the memories a read of pt[i] can find
read_entry(m, t, i) ==
    IF Entry(m, t, i) = UnknownPte
    THEN {SetEntry(m, t, i, value) : value \in UnknownReads}
    ELSE {m}

\* &pt[i]; the entry 0 of the page at address 0 is the null pointer
PtePtr(t, i) == [table |-> t, index |-> i]
NullPte == PtePtr(NULL, 0)

walk_pt(m, pd_entry, v) ==
    IF ~pte_present(pd_entry) THEN {[mem |-> m, pte |-> NullPte]}
    ELSE {[mem |-> m, pte |-> PtePtr(pte_physical_address(pd_entry), v.pt)]}

walk_pd(m, pdpt_entry, v) ==
    IF ~pte_present(pdpt_entry) THEN {[mem |-> m, pte |-> NullPte]}
    ELSE UNION {walk_pt(m1, Entry(m1, pte_physical_address(pdpt_entry), v.pd), v) :
                m1 \in read_entry(m, pte_physical_address(pdpt_entry), v.pd)}

walk_pdpt(m, pml4_entry, v) ==
    IF ~pte_present(pml4_entry) THEN {[mem |-> m, pte |-> NullPte]}
    ELSE UNION {walk_pd(m1, Entry(m1, pte_physical_address(pml4_entry), v.pdpt), v) :
                m1 \in read_entry(m, pte_physical_address(pml4_entry), v.pdpt)}

\* the entry found for virtual_addr, with the memory as the reads found it
walk_page_table(m, page_table_root, virtual_addr) ==
    IF in_hole(virtual_addr) THEN {[mem |-> m, pte |-> NullPte]}
    ELSE UNION {walk_pdpt(m1, Entry(m1, page_table_root, virtual_addr.pml4), virtual_addr) :
                m1 \in read_entry(m, page_table_root, virtual_addr.pml4)}

\* the page pmm_alloc_page returned as `a`, zeroed
page_table_page(k, a) ==
    IF a.ret = NULL THEN [ret |-> NULL, k |-> [k EXCEPT !.pmm = a.pmm]]
    ELSE [ret |-> a.ret,
          k |-> [k EXCEPT !.pmm = owner_writes(a.pmm, a.ret, 0),
                          !.mem[a.ret] = ZeroPage]]

create_page_table_page(k) == page_table_page(k, pmm_alloc_page(k.pmm))

\* *entry = create_pte(create_page_table_page(), PTE_P | PTE_W)
table_installed(c, t, i) ==
    [c.k EXCEPT !.mem = SetEntry(@, t, i, create_pte(c.ret, {PTE_P, PTE_W}))]

\* the entry i of the interior table t, created when it is not present
interior_entry(k, t, i) ==
    IF pte_present(Entry(k.mem, t, i)) THEN k
    ELSE table_installed(create_page_table_page(k), t, i)

interior(k, t, i) ==
    {interior_entry([k EXCEPT !.mem = m1], t, i) : m1 \in read_entry(k.mem, t, i)}

next_table(k, t, i) == pte_physical_address(Entry(k.mem, t, i))

write_leaf(k, ptable, i, physical_addr, flags) ==
    IF pte_present(Entry(k.mem, ptable, i)) THEN [ret |-> -1, k |-> k]
    ELSE [ret |-> 0,
          k |-> [k EXCEPT !.mem = SetEntry(@, ptable, i, create_pte(physical_addr, flags))]]

map_pt(k, ptable, v, physical_addr, flags) ==
    {write_leaf([k EXCEPT !.mem = m1], ptable, v.pt, physical_addr, flags) :
     m1 \in read_entry(k.mem, ptable, v.pt)}

map_pd(k, pd, v, physical_addr, flags) ==
    UNION {map_pt(k1, next_table(k1, pd, v.pd), v, physical_addr, flags) :
           k1 \in interior(k, pd, v.pd)}

map_pdpt(k, pdpt, v, physical_addr, flags) ==
    UNION {map_pd(k1, next_table(k1, pdpt, v.pdpt), v, physical_addr, flags) :
           k1 \in interior(k, pdpt, v.pdpt)}

\* the possible results of map_virtual_address: the value returned and the state
map_virtual_address(k, page_table_root, virtual_addr, physical_addr, flags) ==
    IF in_hole(virtual_addr) THEN {[ret |-> -1, k |-> k]}
    ELSE UNION {map_pdpt(k1, next_table(k1, page_table_root, virtual_addr.pml4),
                         virtual_addr, physical_addr, flags) :
                k1 \in interior(k, page_table_root, virtual_addr.pml4)}

\* *pte = 0 when the walk found an entry
entry_cleared(w) ==
    IF w.pte = NullPte THEN w.mem
    ELSE SetEntry(w.mem, w.pte.table, w.pte.index, ZeroPte)

unmap_virtual_address(m, page_table_root, virtual_addr) ==
    {entry_cleared(w) : w \in walk_page_table(m, page_table_root, virtual_addr)}

\* the frame of the translation the walk w ends in, in the memory m1
translation(w, m1) ==
    IF pte_present(Entry(m1, w.pte.table, w.pte.index))
    THEN pte_physical_address(Entry(m1, w.pte.table, w.pte.index))
    ELSE NULL

translated(w) ==
    IF w.pte = NullPte THEN {NULL}
    ELSE {translation(w, m1) : m1 \in read_entry(w.mem, w.pte.table, w.pte.index)}

\* the frames get_physical_address can return for a page aligned address
get_physical_address(m, page_table_root, virtual_addr) ==
    UNION {translated(w) : w \in walk_page_table(m, page_table_root, virtual_addr)}

\* pte_physical_address(*pte) + PAGE_OFFSET(virtual_addr), as a byte address
physical_address_at(w, m1, offset) ==
    IF pte_present(Entry(m1, w.pte.table, w.pte.index))
    THEN pte_physical_address(Entry(m1, w.pte.table, w.pte.index)) * PAGE_SIZE + offset
    ELSE NULL

translated_at(w, offset) ==
    IF w.pte = NullPte THEN {NULL}
    ELSE {physical_address_at(w, m1, offset) :
          m1 \in read_entry(w.mem, w.pte.table, w.pte.index)}

\* the byte addresses get_physical_address can return for virtual_addr + offset
get_physical_address_at(m, page_table_root, virtual_addr, offset) ==
    UNION {translated_at(w, offset) : w \in walk_page_table(m, page_table_root, virtual_addr)}

---------------------------------------------------------------------------
(* vmm.h, vmm.c *)

VMM_READ == 0
VMM_WRITE == 1
VMM_EXEC == 2
VMM_USER == 3
VMM_KERNEL == 4

\* &kernel_address_space, a static object outside the frames
kernel_address_space_addr == -3
\* (void*)0x100000
VMM_BASE == VAddr(0, 0, 0, 0, 256)

NoSpace == [page_table_root |-> NULL, flags |-> {}]

\* the vmm_address_space_t a space pointer designates
SpaceAt(k, space) ==
    IF space = kernel_address_space_addr THEN k.vmm.kernel_address_space
    ELSE IF k.mem[space].kind = "space"
         THEN [page_table_root |-> k.mem[space].page_table_root, flags |-> k.mem[space].flags]
         ELSE NoSpace

\* size > (uint32)(pages * PAGE_SIZE) / divisor, for a divisor of PAGE_SIZE
exceeds(requested_size, pages, divisor) ==
    (requested_size + (PAGE_SIZE \div divisor) - 1) \div (PAGE_SIZE \div divisor)
        > pages % (2 ^ 20)

vmm_validate_allocation(p, requested_size) ==
    /\ ~exceeds(requested_size, p.free_pages, 1)
    /\ ~exceeds(requested_size, p.total_pages, 2)
    /\ ~(requested_size > 100 * 1024 * 1024)

\* kernel_address_space once create_page_table_page has returned c
kernel_space_rooted(c) ==
    [c.k EXCEPT !.vmm = [initialized |-> 1,
                         kernel_address_space |-> [page_table_root |-> c.ret,
                                                   flags |-> {VMM_KERNEL}]]]

vmm_init(k) ==
    IF k.vmm.initialized # 0 THEN k
    ELSE kernel_space_rooted(create_page_table_page(k))

\* the space in the page `space` once create_page_table_page has returned c
space_rooted(space, c) ==
    IF c.ret = NULL
    THEN {[ret |-> NULL, k |-> [c.k EXCEPT !.pmm = p, !.mem[space] = NoObject]] :
          p \in pmm_free_page(c.k.pmm, space)}
    ELSE {[ret |-> space,
           k |-> [c.k EXCEPT !.mem[space] = [kind |-> "space",
                                             page_table_root |-> c.ret,
                                             flags |-> {VMM_USER}]]]}

space_page(k, a) ==
    IF a.ret = NULL THEN {[ret |-> NULL, k |-> [k EXCEPT !.pmm = a.pmm]]}
    ELSE space_rooted(a.ret,
                      create_page_table_page([k EXCEPT !.pmm = owner_writes(a.pmm, a.ret, 0)]))

vmm_create_address_space(k) == space_page(k, pmm_alloc_page(k.pmm))

\* the uint32_t page_flags of a mapping made with `flags`
page_flags_of(flags) ==
    {b \in (IF VMM_READ \in flags THEN {PTE_P} ELSE {})
           \cup (IF VMM_WRITE \in flags THEN {PTE_W} ELSE {})
           \cup (IF VMM_USER \in flags THEN {PTE_U} ELSE {})
           \cup (IF VMM_EXEC \notin flags THEN {PTE_NX} ELSE {}) : b < 32}

page_count_of(size) == (((size + PAGE_SIZE - 1) \div PAGE_SIZE) * PAGE_SIZE) \div PAGE_SIZE

\* unmap_virtual_address on the pages j .. i-1 from the base, in each memory of ms
RECURSIVE unmap_range(_, _, _, _, _)
unmap_range(ms, root, base, j, i) ==
    IF j >= i THEN ms
    ELSE unmap_range(UNION {unmap_virtual_address(m, root, AddPages(base, j)) : m \in ms},
                     root, base, j + 1, i)

\* the cleanup after map_virtual_address failed on page i
alloc_undone(k, root, memory, page_count, i) ==
    {[ret |-> VNULL, memory |-> memory, k |-> [k EXCEPT !.mem = m, !.pmm = p]] :
     m \in unmap_range({k.mem}, root, VMM_BASE, 0, i),
     p \in pmm_free_pages(k.pmm, memory, order_from_pages(page_count))}

RECURSIVE map_pages(_, _, _, _, _, _)
\* the loop over the pages once map_virtual_address has returned r for page i
page_mapped(r, space, memory, page_count, flags, i) ==
    IF r.ret # 0
    THEN alloc_undone(r.k, SpaceAt(r.k, space).page_table_root, memory, page_count, i)
    ELSE map_pages(r.k, space, memory, page_count, flags, i + 1)

map_pages(k, space, memory, page_count, flags, i) ==
    IF i >= page_count
    THEN {[ret |-> VMM_BASE, memory |-> memory,
           k |-> [k EXCEPT !.pmm = owner_writes(@, memory, order_from_pages(page_count))]]}
    ELSE UNION {page_mapped(r, space, memory, page_count, flags, i) :
                r \in map_virtual_address(k, SpaceAt(k, space).page_table_root,
                                          AddPages(VMM_BASE, i), memory + i,
                                          page_flags_of(flags))}

\* the rest of vmm_alloc_memory once pmm_alloc_pages has returned a
alloc_backed(k, space, page_count, flags, a) ==
    IF a.ret = NULL THEN {[ret |-> VNULL, memory |-> NULL, k |-> [k EXCEPT !.pmm = a.pmm]]}
    ELSE map_pages([k EXCEPT !.pmm = a.pmm], space, a.ret, page_count, flags, 0)

alloc_validated(k, space, size, flags) ==
    IF ~vmm_validate_allocation(k.pmm, size)
    THEN {[ret |-> VNULL, memory |-> NULL, k |-> k]}
    ELSE alloc_backed(k, space, page_count_of(size), flags,
                      pmm_alloc_pages(k.pmm, order_from_pages(page_count_of(size))))

\* the possible results of vmm_alloc_memory: the address returned, the block
\* pmm_alloc_pages gave and the state
vmm_alloc_memory(k, space, size, flags) ==
    alloc_validated(vmm_init(k), space, size, flags)

\* find_physical_address returns NULL: the pages are unmapped, no frame is freed
vmm_free_memory(k, space, addr, size) ==
    IF space = NULL \/ addr = VNULL THEN {k}
    ELSE {[k EXCEPT !.mem = m] :
          m \in unmap_range({k.mem}, SpaceAt(k, space).page_table_root, addr,
                            0, page_count_of(size))}

vmm_alloc_kernel_memory(k, size) ==
    vmm_alloc_memory(k, kernel_address_space_addr, size, {VMM_KERNEL, VMM_READ, VMM_WRITE})

vmm_free_kernel_memory(k, memory) ==
    IF memory # VNULL THEN vmm_free_memory(k, kernel_address_space_addr, memory, PAGE_SIZE)
    ELSE {k}

\* the possible results of vmm_map_page: the value returned and the state
vmm_map_page(k, space, virtual_addr, physical_addr, flags) ==
    map_virtual_address(k, SpaceAt(k, space).page_table_root, virtual_addr,
                        physical_addr, page_flags_of(flags))

vmm_unmap_page(k, space, virtual_addr) ==
    IF space # NULL /\ virtual_addr # VNULL
    THEN {[k EXCEPT !.mem = m] :
          m \in unmap_virtual_address(k.mem, SpaceAt(k, space).page_table_root,
                                      virtual_addr)}
    ELSE {k}

---------------------------------------------------------------------------
(* scheduler.h, scheduler.c : &tasks[i] is named i + 1 *)

TASK_RUNNING == 0
TASK_READY == 1
TASK_BLOCKED == 2
TASK_SLEEPING == 3
TASK_TERMINATED == 4
SCHED_RR == 1
PRIORITY_LOW == 0
PRIORITY_NORMAL == 1
PRIORITY_CRITICAL == 3
Priorities == PRIORITY_LOW .. PRIORITY_CRITICAL
DEFAULT_TIME_SLICE == 50
StackSize == 8192

\* scaled: MAX_TASKS is 256
MAX_TASKS == 3
TaskSlots == 1 .. MAX_TASKS

\* memset(task, 0, sizeof(task_t))
ZeroTask == [task_id |-> 0, state |-> 0, priority |-> 0, policy |-> 0,
             time_slice |-> 0, time_remaining |-> 0, kernel_stack |-> VNULL,
             next |-> NULL, prev |-> NULL]

\* the links of the task nodes (task_list)
TaskNext(tasks) == [i \in {NULL} \cup TaskSlots |-> IF i = NULL THEN NULL ELSE tasks[i].next]
TaskPrev(tasks) == [i \in {NULL} \cup TaskSlots |-> IF i = NULL THEN NULL ELSE tasks[i].prev]
StoreTaskLinks(tasks, next, prev) ==
    [i \in TaskSlots |-> [tasks[i] EXCEPT !.next = next[i], !.prev = prev[i]]]

\* the scheduler once a list operation on its queue q has returned l
queue_updated(s, q, l) ==
    [s EXCEPT ![q] = l.list, !.tasks = StoreTaskLinks(@, l.next, l.prev)]

queue_add_tail(s, q, node) ==
    queue_updated(s, q, list_add_tail(s[q], TaskNext(s.tasks), TaskPrev(s.tasks), node))

queue_remove(s, q, node) ==
    queue_updated(s, q, list_remove(s[q], TaskNext(s.tasks), TaskPrev(s.tasks), node))

\* the entry of lowest index among the entries `found`, NULL when there is none
first_slot(found) ==
    IF found = {} THEN NULL ELSE CHOOSE i \in found : \A j \in found : i <= j

find_task_by_id(s, task_id) ==
    first_slot({i \in TaskSlots : s.tasks[i].task_id = task_id
                                  /\ s.tasks[i].state # TASK_TERMINATED})

\* a walk of the ready queue that never reaches its end
Hang == -1
SelectFuel == MAX_TASKS + 1

RECURSIVE first_ready(_, _, _)
first_ready(s, node, fuel) ==
    IF node = NULL THEN NULL
    ELSE IF fuel = 0 THEN Hang
    ELSE IF s.tasks[node].state = TASK_READY THEN node
    ELSE first_ready(s, s.tasks[node].next, fuel - 1)

\* the task selected once the walk of the ready queue has ended with `selected`
or_current(s, selected) ==
    IF selected = NULL /\ s.current_task # NULL
       /\ s.tasks[s.current_task].state = TASK_RUNNING
    THEN s.current_task
    ELSE selected

select_next_task(s) == or_current(s, first_ready(s, list_get_head(s.ready_queue), SelectFuel))

scheduler_init(s) ==
    [tasks |-> [i \in TaskSlots |-> ZeroTask],
     ready_queue |-> list_init(EmptyList),
     blocked_queue |-> list_init(EmptyList),
     sleeping_queue |-> list_init(EmptyList),
     current_task |-> NULL,
     next_task_id |-> 1,
     task_count |-> 0,
     scheduler_running |-> 0]

\* the task written into the slot task_index
task_written(s, task_index, priority, kernel_stack) ==
    [s EXCEPT !.tasks[task_index] = [ZeroTask EXCEPT !.task_id = s.next_task_id,
                                                      !.state = TASK_READY,
                                                      !.priority = priority,
                                                      !.policy = SCHED_RR,
                                                      !.time_slice = DEFAULT_TIME_SLICE,
                                                      !.time_remaining = DEFAULT_TIME_SLICE,
                                                      !.kernel_stack = kernel_stack],
              !.next_task_id = @ + 1]

\* list_add_tail(&ready_queue, &task->task_list); task_count++
task_queued(s, task_index) ==
    [queue_add_tail(s, "ready_queue", task_index) EXCEPT !.task_count = @ + 1]

\* the end of scheduler_create_task once vmm_alloc_kernel_memory has returned a
stack_allocated(a, task_index) ==
    IF a.ret = VNULL THEN [ret |-> -1, k |-> a.k]
    ELSE [ret |-> a.k.sched.tasks[task_index].task_id,
          k |-> [a.k EXCEPT !.sched = task_queued([@ EXCEPT !.tasks[task_index].kernel_stack = a.ret],
                                                  task_index)]]

\* the index the search for a free task slot ends at, NULL for MAX_TASKS
free_slot(s) == first_slot({i \in TaskSlots : s.tasks[i].state = TASK_TERMINATED})

create_task_in(k, task_index, priority) ==
    IF task_index = NULL THEN {[ret |-> -1, k |-> k]}
    ELSE {stack_allocated(a, task_index) :
          a \in vmm_alloc_kernel_memory(
                    [k EXCEPT !.sched = task_written(@, task_index, priority, VNULL)],
                    StackSize)}

\* the possible results of scheduler_create_task: the value returned and the state
scheduler_create_task(k, priority) ==
    IF u32_ge(k.sched.task_count, MAX_TASKS) THEN {[ret |-> -1, k |-> k]}
    ELSE create_task_in(k, free_slot(k.sched), priority)

create_thread_in(s, task_index, stack) ==
    IF task_index = NULL THEN [ret |-> -1, sched |-> s]
    ELSE [ret |-> s.next_task_id,
          sched |-> task_queued(task_written(s, task_index, PRIORITY_NORMAL, stack),
                                task_index)]

scheduler_create_thread(s, stack) ==
    IF u32_ge(s.task_count, MAX_TASKS) THEN [ret |-> -1, sched |-> s]
    ELSE create_thread_in(s, free_slot(s), stack)

\* current_task = first_task; current_task->state = TASK_RUNNING
first_started(s, first_task) ==
    IF first_task = Hang THEN [ret |-> 0, returns |-> FALSE, sched |-> s]
    ELSE IF first_task = NULL THEN [ret |-> 0, returns |-> TRUE, sched |-> s]
    ELSE [ret |-> 0, returns |-> TRUE,
          sched |-> [s EXCEPT !.current_task = first_task,
                              !.tasks[first_task].state = TASK_RUNNING]]

\* scheduler_start once the first task has been looked for, with result f
started(k, f) == [ret |-> 0, returns |-> f.returns, k |-> [k EXCEPT !.sched = f.sched]]

\* the end of scheduler_start once the idle task creation has returned c
idle_created(c) ==
    IF c.ret < 0 THEN [ret |-> -1, returns |-> TRUE, k |-> c.k]
    ELSE started(c.k, first_started([c.k.sched EXCEPT !.scheduler_running = 1],
                                    select_next_task(c.k.sched)))

scheduler_start(k) ==
    IF k.sched.scheduler_running # 0 THEN {[ret |-> 0, returns |-> TRUE, k |-> k]}
    ELSE {idle_created(c) : c \in scheduler_create_task(k, PRIORITY_LOW)}

\* list_remove(&ready_queue, node); list_add_tail(&ready_queue, node)
requeued(s, node) == queue_add_tail(queue_remove(s, "ready_queue", node), "ready_queue", node)

\* the old task made ready when it is still running
old_task_ready(s, old_task) ==
    IF old_task # NULL /\ s.tasks[old_task].state = TASK_RUNNING
    THEN IF s.tasks[old_task].policy = SCHED_RR /\ s.tasks[old_task].time_remaining > 0
         THEN requeued([s EXCEPT !.tasks[old_task].state = TASK_READY], old_task)
         ELSE [s EXCEPT !.tasks[old_task].state = TASK_READY]
    ELSE s

\* current_task = new_task, running with a full time slice
new_task_running(s, new_task) ==
    [s EXCEPT !.current_task = new_task,
              !.tasks[new_task].state = TASK_RUNNING,
              !.tasks[new_task].time_remaining = s.tasks[new_task].time_slice]

switched(s, new_task) ==
    IF new_task = Hang THEN [returns |-> FALSE, sched |-> s]
    ELSE IF new_task = NULL \/ new_task = s.current_task THEN [returns |-> TRUE, sched |-> s]
    ELSE [returns |-> TRUE,
          sched |-> new_task_running(old_task_ready(s, s.current_task), new_task)]

scheduler_schedule(s) ==
    IF s.scheduler_running = 0 THEN [returns |-> TRUE, sched |-> s]
    ELSE switched(s, select_next_task(s))

scheduler_get_task_count(s) == s.task_count

\* current_task with its time slice used up, ready
yielded(s) ==
    [s EXCEPT !.tasks[s.current_task].time_remaining = 0,
              !.tasks[s.current_task].state = TASK_READY]

scheduler_yield(s) ==
    IF s.scheduler_running = 0 \/ s.current_task = NULL THEN [returns |-> TRUE, sched |-> s]
    ELSE IF s.tasks[s.current_task].time_remaining > 0
    THEN IF s.tasks[s.current_task].policy = SCHED_RR
         THEN scheduler_schedule(requeued(yielded(s), s.current_task))
         ELSE scheduler_schedule(yielded(s))
    ELSE [returns |-> TRUE, sched |-> s]

\* the task marked terminated and removed from the three queues
task_unlinked(s, task) ==
    queue_remove(queue_remove(queue_remove([s EXCEPT !.tasks[task].state = TASK_TERMINATED],
                                           "ready_queue", task),
                              "blocked_queue", task),
                 "sleeping_queue", task)

terminate_found(k, task) ==
    IF task = NULL THEN {[ret |-> -1, k |-> k]}
    ELSE {[ret |-> 0,
           k |-> [k1 EXCEPT !.sched = [task_unlinked(@, task) EXCEPT
                                          !.task_count = u32_dec(@)]]] :
          k1 \in vmm_free_kernel_memory(k, k.sched.tasks[task].kernel_stack)}

scheduler_terminate_task(k, task_id) == terminate_found(k, find_task_by_id(k.sched, task_id))

\* current_task->state = reason, a uint8_t
scheduler_block_task(s, reason) ==
    IF s.current_task = NULL THEN [returns |-> TRUE, sched |-> s]
    ELSE scheduler_schedule(
             queue_add_tail(queue_remove([s EXCEPT !.tasks[s.current_task].state = reason % 256],
                                         "ready_queue", s.current_task),
                            "blocked_queue", s.current_task))

unblock_found(s, task) ==
    IF task = NULL THEN s
    ELSE IF s.tasks[task].state # TASK_BLOCKED THEN s
    ELSE queue_add_tail(queue_remove([s EXCEPT !.tasks[task].state = TASK_READY],
                                     "blocked_queue", task),
                        "ready_queue", task)

scheduler_unblock_task(s, task_id) == unblock_found(s, find_task_by_id(s, task_id))

priority_set(s, task, priority) ==
    IF task # NULL THEN [s EXCEPT !.tasks[task].priority = priority] ELSE s

scheduler_set_priority(s, task_id, priority) ==
    priority_set(s, find_task_by_id(s, task_id), priority)

priority_of(s, task) == IF task # NULL THEN s.tasks[task].priority ELSE PRIORITY_LOW

scheduler_get_priority(s, task_id) == priority_of(s, find_task_by_id(s, task_id))

---------------------------------------------------------------------------
(* Inputs *)

Region(base, length, type) == [base |-> base, length |-> length, type |-> type]

\* the memory maps handed to pmm_set_memory_map (base and length in bytes)
MemoryMaps ==
    { <<Region(4 * PAGE_SIZE, 4 * PAGE_SIZE, MEMORY_AVAILABLE)>>,
      <<Region(0, 8 * PAGE_SIZE, MEMORY_RESERVED),
        Region(8 * PAGE_SIZE, 4 * PAGE_SIZE, MEMORY_AVAILABLE),
        Region(12 * PAGE_SIZE, 2 * PAGE_SIZE + 100, MEMORY_AVAILABLE)>>,
      <<Region(0, 16 * PAGE_SIZE, MEMORY_RESERVED)>> }

\* the whole frames of the available regions
RegionFrames(r) == (r.base \div PAGE_SIZE) .. ((r.base \div PAGE_SIZE) + (r.length \div PAGE_SIZE) - 1)
AvailableFrames == UNION {RegionFrames(memory_regions[i]) : i \in 1 .. Len(memory_regions)}

AllocatedFrames == UNION {BlockFrames(a.block, a.order) : a \in allocated}

NoCall == [op |-> "none", order |-> 0, ret |-> NULL, pre_free |-> 0, pre_total |-> 0]
Call(op, order, ret) ==
    [op |-> op, order |-> order, ret |-> ret,
     pre_free |-> pmm.free_pages, pre_total |-> pmm.total_pages]

\* the memory map of the machine the kernel services run on: BootRegions
\* available regions of one frame each, at the even frames from 2 on
BootRegions == 4
BootMap == [i \in 1 .. BootRegions |-> Region(2 * i * PAGE_SIZE, PAGE_SIZE, MEMORY_AVAILABLE)]
BootFrames == [i \in 1 .. BootRegions |-> 2 * i]

\* pmm_free_page on every frame of `frames` in turn, from each state of `states`
RECURSIVE hand_over_all(_, _)
hand_over_all(states, frames) ==
    IF frames = <<>> THEN states
    ELSE hand_over_all(UNION {pmm_free_page(p, Head(frames)) : p \in states}, Tail(frames))

\* the state of the kernel that the operations thread through their calls
Kernel == [pmm |-> pmm, mem |-> mem, ipc |-> ipc, vmm |-> vmm, sched |-> sched]

\* arguments of the ipc calls
ServiceNames == {"a", "b"}
Handlers == {41}
Payloads == { [data |-> <<1>>, length |-> 1],
              [data |-> <<2, 3>>, length |-> 2],
              [data |-> <<2, 3>>, length |-> 0] }
BufferLengths == {1, 2}
\* the queues a caller can name: the system queue (NULL) and the queues of the
\* service entries
Destinations ==
    {NULL} \cup {ipc.service_registry[i].service_queue : i \in Slots}
\* number of messages accepted over a run (a broadcast under way is not cut short)
MaxSends == 2
\* how far below zero the calls followed take service_count
MaxUnderflow == 1
QueueIds == {system_message_queue_addr} \cup Frames
RECURSIVE TotalLen(_, _)
TotalLen(log, ids) ==
    IF ids = {} THEN 0
    ELSE LET q == CHOOSE x \in ids : TRUE
         IN  Len(log[q]) + TotalLen(log, ids \ {q})

NoIpcCall == [returns |-> TRUE]

\* arguments of the registry calls
RegistryNames == {"a", "b", "c"}
RegistryHandlers == {41, 42}

\* the memory map of the machine the memory manager runs on: a region of two
\* frames, which the allocator merges into one block of order 1, and
\* VmmBootSingles regions of one frame each at the odd frames from 5 on
VmmBootSingles == 5
VmmBootMap ==
    <<Region(2 * PAGE_SIZE, 2 * PAGE_SIZE, MEMORY_AVAILABLE)>>
    \o [i \in 1 .. VmmBootSingles |-> Region((2 * i + 3) * PAGE_SIZE, PAGE_SIZE, MEMORY_AVAILABLE)]
VmmBootFrames == <<2, 3>> \o [i \in 1 .. VmmBootSingles |-> 2 * i + 3]

\* largest number of address spaces created
MaxSpaces == 1

\* arguments of the vmm calls
Sizes == {PAGE_SIZE, PAGE_SIZE + 1}
FlagSets == {{VMM_READ}, {VMM_WRITE}, {VMM_READ, VMM_EXEC}, {VMM_READ, VMM_WRITE, VMM_USER}}
Spaces == {kernel_address_space_addr} \cup {f \in Frames : mem[f].kind = "space"}

\* arguments of the page mapping calls: 0, 0x100000, 0xffff800000000000 and
\* the non canonical 0x0000800000000000
VirtualPages ==
    {VNULL, VMM_BASE, VAddr(UpperHalf, 256, 0, 0, 0), VAddr(0, 256, 0, 0, 0)}
MapFlagSets == {{VMM_READ}, {VMM_WRITE}}
\* frames outside the memory map, mapped as device memory
PhysicalPages == {14, 15}
Offsets == {0, 1, PAGE_SIZE - 1}

\* arguments of the scheduler calls
TaskIds == 0 .. MAX_TASKS
Reasons == {TASK_RUNNING, TASK_READY, TASK_BLOCKED, TASK_SLEEPING, TASK_TERMINATED,
            256 + TASK_BLOCKED}
Stacks == {VMM_BASE}

NoVmmCall == [op |-> "none", space |-> NULL, pages |-> 0, ret |-> VNULL, memory |-> NULL,
              free_before |-> 0, frees |-> FALSE, first |-> FALSE, again |-> FALSE,
              status |-> 0, round_trip |-> FALSE, before |-> <<>>,
              live |-> FALSE, live_base |-> VNULL, live_pages |-> 0,
              initialized |-> FALSE, size |-> 0, free_memory |-> 0, starved |-> FALSE,
              flags |-> {}, leaf |-> {}]
NoSchedCall == [op |-> "none", ret |-> 0, returns |-> TRUE, stack_available |-> FALSE,
                live_before |-> 0, reached |-> FALSE, task_id |-> 0]

---------------------------------------------------------------------------
(* Actions *)

\* the zero-initialised static data of the kernel
Init ==
    /\ pmm = [initialized |-> 0,
              free_lists |-> [k \in 0 .. MAX_ORDER |-> <<>>],
              memory_start |-> 0, memory_end |-> 0,
              total_pages |-> 0, free_pages |-> 0,
              hdr_order |-> [f \in Frames |-> UNKNOWN]]
    /\ memory_regions = <<>>
    /\ allocated = {}
    /\ handed = {}
    /\ last = NoCall
    /\ mem = [f \in Frames |-> NoObject]
    /\ ipc = [initialized |-> 0,
              system_message_queue |-> NewQueue(NULL, 0),
              registered_services |-> EmptyList,
              service_registry |-> [i \in Slots |-> NoService],
              service_count |-> 0]
    /\ ipc_last = NoIpcCall
    /\ sent_log = [q \in QueueIds |-> <<>>]
    /\ recv_log = [q \in QueueIds |-> <<>>]
    /\ vmm = [initialized |-> 0, kernel_address_space |-> NoSpace]
    /\ vmm_last = NoVmmCall
    \* the statics of scheduler.c hold the values scheduler_init gives them
    /\ sched = scheduler_init(<<>>)
    /\ sched_last = NoSchedCall

PmmInit ==
    /\ pmm.initialized = 0
    /\ pmm' = pmm_init(pmm)
    /\ last' = Call("init", 0, NULL)
    /\ UNCHANGED <<memory_regions, allocated, handed, non_pmm_vars>>

\* pmm_set_memory_map(map, count); called once, by the boot code
PmmSetMemoryMapOf(maps) ==
    /\ last.op \in {"none", "init"}
    /\ \E map \in maps :
         \E r \in pmm_set_memory_map(pmm, map) :
             /\ pmm' = r.pmm
             /\ memory_regions' = r.regions
    /\ last' = Call("set_memory_map", 0, NULL)
    /\ UNCHANGED <<allocated, handed, non_pmm_vars>>

PmmSetMemoryMap == PmmSetMemoryMapOf(MemoryMaps)

\* the orders requested: the small ones, the largest order and the first
\* order beyond it
RequestOrders == (0 .. MaxReqOrder) \cup {MAX_ORDER, MAX_ORDER + 1}

\* pmm_alloc_pages(order)
PmmAllocPages ==
    \E order \in RequestOrders :
        LET r == pmm_alloc_pages(pmm, order)
        IN  /\ pmm' = owner_writes(r.pmm, r.ret, order)
            /\ allocated' = IF r.ret = NULL THEN allocated
                            ELSE allocated \cup {[block |-> r.ret, order |-> order]}
            /\ last' = Call("alloc", order, r.ret)
            /\ UNCHANGED <<memory_regions, handed, non_pmm_vars>>

\* pmm_free_pages(pages, order) of a block obtained from pmm_alloc_pages(order)
PmmFreePages ==
    \E a \in allocated :
        /\ pmm' \in pmm_free_pages(pmm, a.block, a.order)
        /\ allocated' = allocated \ {a}
        /\ last' = IF last.op = "alloc" /\ last.ret = a.block /\ last.order = a.order
                   THEN [last EXCEPT !.op = "free_after_alloc"]
                   ELSE Call("free", a.order, a.block)
        /\ UNCHANGED <<memory_regions, handed, non_pmm_vars>>

\* pmm_free_pages(NULL, order) after an allocation that failed
PmmFreeNull ==
    /\ last.op = "alloc" /\ last.ret = NULL
    /\ pmm' \in pmm_free_pages(pmm, NULL, last.order)
    /\ last' = [last EXCEPT !.op = "free_after_alloc"]
    /\ UNCHANGED <<memory_regions, allocated, handed, non_pmm_vars>>

\* pmm_free_pages(block, order) by the boot code, which owns the usable memory
\* the allocator has not seen yet: a naturally aligned block of an available
\* region, handed over before the first allocation, the map walked upwards
PmmHandOverOf(orders) ==
    /\ last.op \in {"set_memory_map", "hand_over"}
    /\ \E order \in orders, block \in Frames \ {NULL} :
        /\ block % pages_from_order(order) = 0
        /\ BlockFrames(block, order) \subseteq AvailableFrames \ handed
        /\ \A f \in handed : f < block
        /\ pmm' \in pmm_free_pages(pmm, block, order)
        /\ handed' = handed \cup BlockFrames(block, order)
        /\ last' = Call("hand_over", order, block)
    /\ UNCHANGED <<memory_regions, allocated, non_pmm_vars>>

PmmHandOver == PmmHandOverOf(0 .. MaxSeedOrder)

NextPFA ==
    \/ PmmInit
    \/ PmmSetMemoryMap
    \/ PmmAllocPages
    \/ PmmFreePages
    \/ PmmFreeNull
    \/ PmmHandOver

SpecPFA == Init /\ [][NextPFA]_vars

---------------------------------------------------------------------------
(* Actions of the kernel services *)

SetKernel(k) ==
    /\ pmm' = k.pmm
    /\ mem' = k.mem
    /\ ipc' = k.ipc
    /\ vmm' = k.vmm
    /\ sched' = k.sched

\* the boot code: pmm_set_memory_map(BootMap), then every available frame is
\* handed to the allocator with pmm_free_page
KernelBoot ==
    /\ last.op = "none"
    /\ \E r \in pmm_set_memory_map(pmm, BootMap) :
         /\ memory_regions' = r.regions
         /\ pmm' \in hand_over_all({r.pmm}, BootFrames)
    /\ handed' = {BootFrames[i] : i \in 1 .. BootRegions}
    /\ last' = Call("hand_over", 0, BootFrames[BootRegions])
    /\ UNCHANGED <<allocated, non_pmm_vars>>

\* the kernel services run once the boot code has handed the memory over, and
\* a call of ipc.c that loops for ever keeps the processor
IpcRuns == last.op = "hand_over" /\ ipc_last.returns

LogSent(accepted, k) ==
    [q \in QueueIds |->
        sent_log[q] \o [i \in 1 .. Len(SelectSeq(accepted, LAMBDA a : a.queue = q)) |->
                           Received(k.mem[SelectSeq(accepted, LAMBDA a : a.queue = q)[i].message])]]

IpcInit ==
    /\ IpcRuns
    /\ SetKernel(ipc_init(Kernel))
    /\ ipc_last' = NoIpcCall
    /\ UNCHANGED <<memory_regions, env_vars, vmm_last, sched_last, sent_log, recv_log>>

\* the state and the logs after ipc_send_message returned r
SendReturns(r) ==
    /\ r.ret = 0 => TotalLen(sent_log, QueueIds) < MaxSends
    /\ SetKernel(r.k)
    /\ sent_log' = IF r.ret = 0
                   THEN [sent_log EXCEPT ![r.queue] = Append(@, Received(r.k.mem[r.message]))]
                   ELSE sent_log
    /\ ipc_last' = NoIpcCall

IpcSendMessage ==
    /\ IpcRuns
    /\ \E destination \in Destinations, m \in Payloads :
         SendReturns(ipc_send_message(Kernel, destination, m.data, m.length,
                                      IPC_MESSAGE_DATA, IPC_NONBLOCKING))
    /\ UNCHANGED <<memory_regions, env_vars, vmm_last, sched_last, recv_log>>

IpcReceiveMessage ==
    /\ IpcRuns
    /\ \E source \in Destinations, length \in BufferLengths :
         \E r \in ipc_receive_message(Kernel, source, length) :
             /\ SetKernel(r.k)
             /\ recv_log' = IF r.ret = 0
                            THEN [recv_log EXCEPT ![r.queue] = Append(@, r.out)]
                            ELSE recv_log
             /\ ipc_last' = NoIpcCall
    /\ UNCHANGED <<memory_regions, env_vars, vmm_last, sched_last, sent_log>>

\* the state after a call that changes no log returned r
CallReturns(r) ==
    /\ SetKernel(r.k)
    /\ ipc_last' = [NoIpcCall EXCEPT !.returns = r.returns]

RegisterReturns(r) ==
    /\ SetKernel(r.k)
    /\ ipc_last' = NoIpcCall

IpcRegisterService ==
    /\ IpcRuns
    /\ \E service_name \in ServiceNames, service_handler \in Handlers :
         RegisterReturns(ipc_register_service(Kernel, service_name, service_handler))
    /\ UNCHANGED <<memory_regions, env_vars, vmm_last, sched_last, sent_log, recv_log>>

IpcLookupService ==
    /\ IpcRuns
    /\ \E service_name \in ServiceNames :
         CallReturns(ipc_lookup_service(Kernel, service_name))
    /\ UNCHANGED <<memory_regions, env_vars, vmm_last, sched_last, sent_log, recv_log>>

IpcUnregisterService ==
    /\ IpcRuns
    /\ ipc.service_count > -MaxUnderflow
    /\ \E service_name \in ServiceNames :
         CallReturns(ipc_unregister_service(Kernel, service_name))
    /\ UNCHANGED <<memory_regions, env_vars, vmm_last, sched_last, sent_log, recv_log>>

\* the state and the logs after ipc_broadcast_message ended as r
BroadcastReturns(r) ==
    /\ SetKernel(r.k)
    /\ sent_log' = LogSent(r.accepted, r.k)
    /\ ipc_last' = [NoIpcCall EXCEPT !.returns = r.returns]

IpcBroadcastMessage ==
    /\ IpcRuns
    /\ TotalLen(sent_log, QueueIds) < MaxSends
    /\ \E m \in Payloads :
         BroadcastReturns(ipc_broadcast_message(Kernel, m.data, m.length, IPC_MESSAGE_SYSTEM))
    /\ UNCHANGED <<memory_regions, env_vars, vmm_last, sched_last, recv_log>>

NextIPC ==
    \/ KernelBoot
    \/ IpcInit
    \/ IpcSendMessage
    \/ IpcReceiveMessage
    \/ IpcRegisterService
    \/ IpcLookupService
    \/ IpcUnregisterService
    \/ IpcBroadcastMessage

SpecIPC == Init /\ [][NextIPC]_vars

\* the handler each name was registered with by a call that returned 0, NULL
\* once the name has been passed to ipc_unregister_service or to a further
\* ipc_register_service that failed
Owners ==
    IF "owners" \in DOMAIN ipc_last THEN ipc_last.owners
    ELSE [n \in RegistryNames |-> NULL]

\* the record of a registry call: its arguments, its result and what
\* ipc_lookup_service found for the name before the call
RegistryCall(op, service_name, service_handler, r, owners) ==
    [returns |-> r.returns, op |-> op, name |-> service_name, handler |-> service_handler,
     ret |-> r.ret,
     looked_up |-> ipc_lookup_service(Kernel, service_name).returns,
     found |-> ipc_lookup_service(Kernel, service_name).ret,
     count |-> ipc_init(Kernel).ipc.service_count,
     owners |-> owners]

RegistryRegister ==
    /\ IpcRuns
    /\ \E service_name \in RegistryNames, service_handler \in RegistryHandlers :
         \E r \in {ipc_register_service(Kernel, service_name, service_handler)} :
             /\ SetKernel(r.k)
             /\ ipc_last' = RegistryCall("register", service_name, service_handler,
                                         [returns |-> TRUE, ret |-> r.ret],
                                         [Owners EXCEPT ![service_name] =
                                             IF r.ret = 0 THEN service_handler ELSE NULL])
    /\ UNCHANGED <<memory_regions, env_vars, vmm_last, sched_last, sent_log, recv_log>>

RegistryLookup ==
    /\ IpcRuns
    /\ \E service_name \in RegistryNames :
         \E r \in {ipc_lookup_service(Kernel, service_name)} :
             /\ SetKernel(r.k)
             /\ ipc_last' = RegistryCall("lookup", service_name, NULL, r, Owners)
    /\ UNCHANGED <<memory_regions, env_vars, vmm_last, sched_last, sent_log, recv_log>>

RegistryUnregister ==
    /\ IpcRuns
    /\ ipc.service_count > -MaxUnderflow
    /\ \E service_name \in RegistryNames :
         \E r \in {ipc_unregister_service(Kernel, service_name)} :
             /\ SetKernel(r.k)
             /\ ipc_last' = RegistryCall("unregister", service_name, NULL, r,
                                         [Owners EXCEPT ![service_name] = NULL])
    /\ UNCHANGED <<memory_regions, env_vars, vmm_last, sched_last, sent_log, recv_log>>

\* the nodes linked in a list, from its head along next, at most `fuel` of them
RECURSIVE Linked(_, _, _)
Linked(node, next, fuel) ==
    IF node = NULL \/ fuel = 0 THEN <<>>
    ELSE <<node>> \o Linked(next[node], next, fuel - 1)

\* the entries linked in registered_services, in the state k
LinkedServices(k) ==
    Linked(list_get_head(k.ipc.registered_services), ServiceNext(k.ipc.service_registry),
           MAX_SERVICES + 1)

\* the queue ipc_send_message delivers to for a destination: the system queue
\* for NULL
DestinationQueue(destination) ==
    IF destination = NULL THEN system_message_queue_addr ELSE destination

\* the queues ipc_broadcast_message sends to: the system queue and the queue
\* of every registered service
BroadcastTargets(k) ==
    {system_message_queue_addr}
        \cup {DestinationQueue(k.ipc.service_registry[LinkedServices(k)[i]].service_queue) :
                 i \in 1 .. Len(LinkedServices(k))}

\* the blocks on the free lists: each serves one pmm_alloc_page
FreeBlocks(p) ==
    {f \in Frames : \E order \in 0 .. MAX_ORDER :
                        \E i \in 1 .. Len(p.free_lists[order]) : p.free_lists[order][i] = f}

\* the record of a broadcast of the payload m that ended as r from the state
\* k: the queues it was to reach, those with room, the copies each took,
\* whether ipc_send_message accepts the payload, whether the allocator had
\* a page for every send and whether every registered service had a queue of
\* its own
BroadcastCall(r, k, m) ==
    [returns |-> r.returns, op |-> "broadcast", ret |-> r.ret,
     valid |-> m.length # 0 /\ m.length <= sizeof_message_data,
     targets |-> BroadcastTargets(k),
     room |-> {q \in BroadcastTargets(k) :
                  u32_lt(QueueAt(k, q).current_messages, QueueAt(k, q).max_messages)},
     copies |-> [q \in BroadcastTargets(k) |->
                    Len(SelectSeq(r.accepted, LAMBDA a : a.queue = q))],
     supplied |-> Cardinality(FreeBlocks(k.pmm)) >= 1 + Len(LinkedServices(k)),
     own_queues |-> \A i \in 1 .. Len(LinkedServices(k)) :
                       k.ipc.service_registry[LinkedServices(k)[i]].service_queue
                           \notin {NULL, system_message_queue_addr},
     owners |-> Owners]

\* the memory map of the machine the broadcasts run on: BroadcastRegions
\* regions of one frame each, enough for a service with a full queue and a
\* page for every send of a further broadcast
BroadcastRegions == 5
BroadcastMap ==
    [i \in 1 .. BroadcastRegions |-> Region(2 * i * PAGE_SIZE, PAGE_SIZE, MEMORY_AVAILABLE)]
BroadcastFrames == [i \in 1 .. BroadcastRegions |-> 2 * i]

\* the boot code: pmm_set_memory_map(BroadcastMap), then every available
\* frame is handed to the allocator with pmm_free_page
BroadcastBoot ==
    /\ last.op = "none"
    /\ \E r \in pmm_set_memory_map(pmm, BroadcastMap) :
         /\ memory_regions' = r.regions
         /\ pmm' \in hand_over_all({r.pmm}, BroadcastFrames)
    /\ handed' = {BroadcastFrames[i] : i \in 1 .. BroadcastRegions}
    /\ last' = Call("hand_over", 0, BroadcastFrames[BroadcastRegions])
    /\ UNCHANGED <<allocated, non_pmm_vars>>

\* the callers around a broadcast: services come and go under BroadcastNames
\* with one handler, and messages are taken off the system queue into a
\* buffer of BroadcastBuffer bytes
BroadcastNames == {"a", "b"}
BroadcastHandler == 41
BroadcastBuffer == 2

\* the record of a call around a broadcast: only the owners are kept
AroundBroadcast(owners) == [returns |-> TRUE, owners |-> owners]

BroadcastRegister ==
    /\ IpcRuns
    /\ \E service_name \in BroadcastNames :
         \E r \in {ipc_register_service(Kernel, service_name, BroadcastHandler)} :
             /\ SetKernel(r.k)
             /\ ipc_last' = AroundBroadcast([Owners EXCEPT ![service_name] =
                                                IF r.ret = 0 THEN BroadcastHandler ELSE NULL])
    /\ UNCHANGED <<memory_regions, env_vars, vmm_last, sched_last, sent_log, recv_log>>

BroadcastUnregister ==
    /\ IpcRuns
    /\ ipc.service_count > -MaxUnderflow
    /\ \E service_name \in BroadcastNames :
         \E r \in {ipc_unregister_service(Kernel, service_name)} :
             /\ SetKernel(r.k)
             /\ ipc_last' = AroundBroadcast([Owners EXCEPT ![service_name] = NULL])
    /\ UNCHANGED <<memory_regions, env_vars, vmm_last, sched_last, sent_log, recv_log>>

BroadcastReceive ==
    /\ IpcRuns
    /\ \E r \in ipc_receive_message(Kernel, NULL, BroadcastBuffer) :
         /\ SetKernel(r.k)
         /\ ipc_last' = AroundBroadcast(Owners)
    /\ UNCHANGED <<memory_regions, env_vars, vmm_last, sched_last, sent_log, recv_log>>

\* the payloads of the broadcasts: one that ipc_send_message accepts and one
\* it rejects for its length
BroadcastPayloads == {m \in Payloads : m.length <= 1}

BroadcastMessage ==
    /\ IpcRuns
    /\ \E m \in BroadcastPayloads :
         \E r \in {ipc_broadcast_message(Kernel, m.data, m.length, IPC_MESSAGE_SYSTEM)} :
             /\ SetKernel(r.k)
             /\ ipc_last' = BroadcastCall(r, ipc_init(Kernel), m)
    /\ UNCHANGED <<memory_regions, env_vars, vmm_last, sched_last, sent_log, recv_log>>

NextBroadcast ==
    \/ BroadcastBoot
    \/ BroadcastRegister
    \/ BroadcastUnregister
    \/ BroadcastReceive
    \/ BroadcastMessage

SpecBroadcast == Init /\ [][NextBroadcast]_vars

\* gecko_send_message: the checks of the kernel interface, then
\* ipc_send_message with type 1 and flags 2
gecko_send_message(k, destination, data, length) ==
    IF length = 0 THEN send_fail(k)
    ELSE IF length > 1024 THEN send_fail(k)
    ELSE ipc_send_message(k, destination, data, length, IPC_MESSAGE_DATA, IPC_NONBLOCKING)

\* the payload lengths of the sends: none, one byte, the largest message and
\* one byte more
SendLengths == {0, 1, sizeof_message_data, sizeof_message_data + 1}
\* a payload of `length` bytes
PayloadOf(length) == [i \in 1 .. length |-> 1]
\* the entry points of a send
SendEntries == {"gecko", "ipc"}
\* the buffer of the receiver takes the largest message
SendBuffer == sizeof_message_data

\* the messages linked in the queue q of the state k, head first
QueueMessages(k, q) ==
    Linked(list_get_head(QueueAt(k, q).message_list), MessageNext(k.mem), NFrames)

\* the record of a send of `length` bytes to `destination` that ended as r from
\* the state k: whether the queue had room and the allocator a page, whether
\* the allocator, the memory and the messages of the queue are as before, the
\* number of messages the queue gained and the length of the message at its
\* tail
SendCall(r, k, destination, length) ==
    [returns |-> TRUE, op |-> "send", length |-> length, ret |-> r.ret,
     room |-> u32_lt(QueueAt(k, DestinationQueue(destination)).current_messages,
                     QueueAt(k, DestinationQueue(destination)).max_messages),
     page |-> FreeBlocks(k.pmm) # {},
     unchanged |-> /\ r.k.pmm = k.pmm
                   /\ r.k.mem = k.mem
                   /\ QueueAt(r.k, DestinationQueue(destination)).message_list
                          = QueueAt(k, DestinationQueue(destination)).message_list
                   /\ QueueAt(r.k, DestinationQueue(destination)).current_messages
                          = QueueAt(k, DestinationQueue(destination)).current_messages,
     queued |-> Len(QueueMessages(r.k, DestinationQueue(destination)))
                   - Len(QueueMessages(k, DestinationQueue(destination))),
     tail_length |->
         IF list_is_empty(QueueAt(r.k, DestinationQueue(destination)).message_list) THEN -1
         ELSE r.k.mem[QueueAt(r.k, DestinationQueue(destination)).message_list.tail]
                  .message_length]

\* the send that entered at `entry`
send_from(entry, k, destination, length) ==
    IF entry = "gecko" THEN gecko_send_message(k, destination, PayloadOf(length), length)
    ELSE ipc_send_message(k, destination, PayloadOf(length), length,
                          IPC_MESSAGE_DATA, IPC_NONBLOCKING)

SendLength ==
    /\ IpcRuns
    /\ \E entry \in SendEntries, destination \in Destinations, length \in SendLengths :
         \E r \in {send_from(entry, Kernel, destination, length)} :
             /\ SetKernel(r.k)
             /\ ipc_last' = SendCall(r, ipc_init(Kernel), destination, length)
    /\ UNCHANGED <<memory_regions, env_vars, vmm_last, sched_last, sent_log, recv_log>>

SendReceive ==
    /\ IpcRuns
    /\ \E source \in Destinations :
         \E r \in ipc_receive_message(Kernel, source, SendBuffer) :
             /\ SetKernel(r.k)
             /\ ipc_last' = AroundBroadcast(Owners)
    /\ UNCHANGED <<memory_regions, env_vars, vmm_last, sched_last, sent_log, recv_log>>

NextSend ==
    \/ KernelBoot
    \/ BroadcastRegister
    \/ SendLength
    \/ SendReceive

SpecSend == Init /\ [][NextSend]_vars

\* while (list_is_empty(&queue->message_list) && wait_time < timeout_ms)
\* wait_time++ : the value of wait_time after the loop; nothing fills the
\* queue while the loop runs
RECURSIVE busy_wait(_, _, _)
busy_wait(empty, wait_time, timeout_ms) ==
    IF empty /\ wait_time < timeout_ms THEN busy_wait(empty, wait_time + 1, timeout_ms)
    ELSE wait_time

\* the longest timeout of the receives; gecko_receive_message passes 1000
MaxTimeout == 100

\* the timeouts of the receives: none, one millisecond and the longest
WaitTimeouts == {0, 1, MaxTimeout}

\* the queue `source` names is empty when ipc_receive_message looks at it
SourceEmpty(k0, source) ==
    list_is_empty(QueueAt(ipc_init(k0), DestinationQueue(source)).message_list)

\* ipc_receive_message with its wait loop: the outcomes and the count the loop
\* has reached
timed_receive(k0, source, length, timeout_ms) ==
    {[ret |-> r.ret, k |-> r.k,
      waited |-> busy_wait(SourceEmpty(k0, source), 0, timeout_ms)] :
     r \in ipc_receive_message(k0, source, length)}

\* a task that was running in the scheduler state s is blocked or sleeping in t
Suspended(s, t) ==
    \E task \in TaskSlots :
        /\ s.tasks[task].state = TASK_RUNNING
        /\ t.tasks[task].state \in {TASK_BLOCKED, TASK_SLEEPING}

TimedReceive ==
    /\ IpcRuns
    /\ \E source \in Destinations, timeout_ms \in WaitTimeouts :
         \E r \in timed_receive(Kernel, source, SendBuffer, timeout_ms) :
             /\ SetKernel(r.k)
             /\ ipc_last' = [returns |-> TRUE, op |-> "recv", ret |-> r.ret,
                             timeout |-> timeout_ms,
                             empty |-> SourceEmpty(Kernel, source),
                             waited |-> r.waited,
                             suspended |-> Suspended(sched, r.k.sched),
                             rescheduled |-> r.k.sched # sched]
    /\ UNCHANGED <<memory_regions, env_vars, vmm_last, sched_last, sent_log, recv_log>>

NextWait ==
    \/ KernelBoot
    \/ BroadcastRegister
    \/ SendLength
    \/ TimedReceive

SpecWait == Init /\ [][NextWait]_vars

NextRegistry ==
    \/ KernelBoot
    \/ RegistryRegister
    \/ RegistryLookup
    \/ RegistryUnregister

SpecRegistry == Init /\ [][NextRegistry]_vars

---------------------------------------------------------------------------
(* Actions of the virtual memory manager *)

\* the boot code: pmm_set_memory_map(VmmBootMap), then every available frame
\* is handed to the allocator with pmm_free_page
VmmBoot ==
    /\ last.op = "none"
    /\ \E r \in pmm_set_memory_map(pmm, VmmBootMap) :
         /\ memory_regions' = r.regions
         /\ pmm' \in hand_over_all({r.pmm}, VmmBootFrames)
    /\ handed' = {VmmBootFrames[i] : i \in 1 .. Len(VmmBootFrames)}
    /\ last' = Call("hand_over", 0, VmmBootFrames[Len(VmmBootFrames)])
    /\ UNCHANGED <<allocated, non_pmm_vars>>

\* the memory manager serves requests once the boot code has handed the
\* memory over
VmmRuns == last.op = "hand_over"

VmmCall(op) == [NoVmmCall EXCEPT !.op = op]

VmmInit ==
    /\ SetKernel(vmm_init(Kernel))
    /\ vmm_last' = VmmCall("init")
    /\ UNCHANGED <<memory_regions, env_vars, ipc_last, sent_log, recv_log, sched_last>>

VmmCreateAddressSpace ==
    /\ VmmRuns
    /\ Cardinality(Spaces) <= MaxSpaces
    /\ \E r \in vmm_create_address_space(Kernel) :
         /\ SetKernel(r.k)
         /\ vmm_last' = [VmmCall("create_address_space") EXCEPT !.space = r.ret]
    /\ UNCHANGED <<memory_regions, env_vars, ipc_last, sent_log, recv_log, sched_last>>

\* no allocation is live in the space: its root has no table under the entry
\* every allocation is mapped through (interior tables are never removed)
no_allocation(k, space) ==
    /\ SpaceAt(k, space).page_table_root # NULL
    /\ Entry(k.mem, SpaceAt(k, space).page_table_root, VMM_BASE.pml4) = ZeroPte

\* the call repeats, with the same space and size, the allocation that
\* succeeded in a space without live allocation and has just been freed
AllocatesAgain(space, pages) ==
    /\ vmm_last.op \in {"free", "free_kernel"}
    /\ vmm_last.frees
    /\ vmm_last.first
    /\ vmm_last.space = space
    /\ vmm_last.pages = pages

\* the call follows an allocation in the same space that succeeded and has
\* not been freed
AllocationLive(space) ==
    /\ vmm_last.op = "alloc"
    /\ vmm_last.ret # VNULL
    /\ vmm_last.space = space

\* the pages an allocation of the sizes of the model is mapped at
AllocRange == {VMM_BASE, AddPage(VMM_BASE)}

\* what get_physical_address can return in the space for the pages of AllocRange
RangeTranslations(k, space) ==
    [v \in AllocRange |->
        get_physical_address(k.mem, SpaceAt(k, space).page_table_root, v)]

\* the allocator had a block and the mapping of a page failed
MappingFailed(r) == r.ret = VNULL /\ r.memory # NULL

\* the state after vmm_alloc_memory has returned r
AllocReturns(r, space, size) ==
    /\ SetKernel(r.k)
    /\ vmm_last' = [VmmCall("alloc") EXCEPT
                        !.space = space,
                        !.pages = page_count_of(size),
                        !.ret = r.ret,
                        !.memory = r.memory,
                        !.free_before = IF r.memory = NULL THEN 0 ELSE pmm.free_pages,
                        !.before = IF MappingFailed(r) THEN RangeTranslations(Kernel, space)
                                   ELSE <<>>,
                        !.first = \/ no_allocation(Kernel, space)
                                  \/ AllocatesAgain(space, page_count_of(size)),
                        !.again = AllocatesAgain(space, page_count_of(size)),
                        !.initialized = vmm.initialized = 1,
                        !.live = AllocationLive(space),
                        !.live_base = IF AllocationLive(space) THEN vmm_last.ret ELSE VNULL,
                        !.live_pages = IF AllocationLive(space) THEN vmm_last.pages ELSE 0]

VmmAllocMemory ==
    /\ VmmRuns
    /\ \E space \in Spaces, size \in Sizes, flags \in FlagSets :
         \E r \in vmm_alloc_memory(Kernel, space, size, flags) :
             AllocReturns(r, space, size)
    /\ UNCHANGED <<memory_regions, env_vars, ipc_last, sent_log, recv_log, sched_last>>

VmmAllocKernelMemory ==
    /\ VmmRuns
    /\ \E size \in Sizes :
         \E r \in vmm_alloc_kernel_memory(Kernel, size) :
             AllocReturns(r, kernel_address_space_addr, size)
    /\ UNCHANGED <<memory_regions, env_vars, ipc_last, sent_log, recv_log, sched_last>>

\* the call frees the allocation v = alloc(space, size, flags) that has just
\* succeeded
FreesLastAlloc(space, addr) ==
    /\ vmm_last.op = "alloc"
    /\ vmm_last.ret # VNULL
    /\ vmm_last.ret = addr
    /\ vmm_last.space = space

\* the state after the free `op` of addr in space has returned
FreeReturns(k, op, space, addr, frees) ==
    /\ SetKernel(k)
    /\ vmm_last' = IF frees
                   THEN [vmm_last EXCEPT !.op = op, !.frees = TRUE, !.again = FALSE]
                   ELSE [VmmCall(op) EXCEPT !.space = space]

VmmFreeMemory ==
    /\ VmmRuns
    /\ \E space \in Spaces, size \in Sizes :
         \E k \in vmm_free_memory(Kernel, space, VMM_BASE, size) :
             FreeReturns(k, "free", space, VMM_BASE,
                         /\ FreesLastAlloc(space, VMM_BASE)
                         /\ vmm_last.pages = page_count_of(size))
    /\ UNCHANGED <<memory_regions, env_vars, ipc_last, sent_log, recv_log, sched_last>>

VmmFreeKernelMemory ==
    /\ VmmRuns
    /\ \E memory \in {VNULL, VMM_BASE} :
         \E k \in vmm_free_kernel_memory(Kernel, memory) :
             FreeReturns(k, "free_kernel", kernel_address_space_addr, memory,
                         FreesLastAlloc(kernel_address_space_addr, memory))
    /\ UNCHANGED <<memory_regions, env_vars, ipc_last, sent_log, recv_log, sched_last>>

\* what get_physical_address returns in the space for each page of
\* VirtualPages and each offset
TranslationsOf(k, space) ==
    [v \in VirtualPages, offset \in Offsets |->
        get_physical_address_at(k.mem, SpaceAt(k, space).page_table_root, v, offset)]

\* the call is map(root, v, p, flags) of the round trip: root is a page table,
\* v is canonical and not mapped in root, flags contain VMM_READ
MapsUnmapped(space, virtual_addr, flags) ==
    /\ SpaceAt(Kernel, space).page_table_root # NULL
    /\ ~in_hole(virtual_addr)
    /\ get_physical_address_at(mem, SpaceAt(Kernel, space).page_table_root,
                               virtual_addr, 0) = {NULL}
    /\ VMM_READ \in flags

\* every table of the walks was supplied by the allocator: no present entry
\* holds the address create_page_table_page returns when it fails
TablesAllocated ==
    \A f \in Frames : mem[f].kind = "table" =>
        \A i \in Indices : ~(pte_present(mem[f].entries[i]) /\ mem[f].entries[i].addr = NULL)

\* the interior tables (PDPT, PD, PT) missing on the path from the root to
\* virtual_addr
missing_tables(m, page_table_root, v) ==
    IF ~pte_present(Entry(m, page_table_root, v.pml4)) THEN 3
    ELSE IF ~pte_present(Entry(m, next_table([mem |-> m], page_table_root, v.pml4), v.pdpt))
    THEN 2
    ELSE IF ~pte_present(Entry(m, next_table([mem |-> m],
                                   next_table([mem |-> m], page_table_root, v.pml4),
                                   v.pdpt), v.pd))
    THEN 1
    ELSE 0

\* pmm_alloc_page returns a frame n times in a row
RECURSIVE supplies(_, _)
supplies(p, n) ==
    IF n = 0 THEN TRUE
    ELSE pmm_alloc_page(p).ret # NULL /\ supplies(pmm_alloc_page(p).pmm, n - 1)

\* the call is a map(root, v, p, flags) for which the allocator cannot supply
\* a frame for every missing interior table; the tables present are tables
\* the allocator supplied
Starved(space, virtual_addr) ==
    /\ TablesAllocated
    /\ ~in_hole(virtual_addr)
    /\ ~supplies(pmm, missing_tables(mem, SpaceAt(Kernel, space).page_table_root,
                                     virtual_addr))

\* the address spaces that have a root page table
RootedSpaces == {space \in Spaces : SpaceAt(Kernel, space).page_table_root # NULL}

VmmMapPage ==
    /\ VmmRuns
    /\ \E space \in RootedSpaces, v \in VirtualPages, p \in PhysicalPages,
          flags \in MapFlagSets :
         \E r \in vmm_map_page(Kernel, space, v, p, flags) :
             /\ SetKernel(r.k)
             /\ vmm_last' = [VmmCall("map") EXCEPT
                                 !.space = space, !.ret = v, !.memory = p,
                                 !.status = r.ret,
                                 !.starved = Starved(space, v),
                                 !.round_trip = MapsUnmapped(space, v, flags) /\ r.ret = 0,
                                 !.before = IF MapsUnmapped(space, v, flags) /\ r.ret = 0
                                            THEN TranslationsOf(Kernel, space)
                                            ELSE <<>>]
    /\ UNCHANGED <<memory_regions, env_vars, ipc_last, sent_log, recv_log, sched_last>>

\* the call is the unmap(root, v) that follows the map(root, v, p, flags) of
\* the round trip
UnmapsLastMap(space, virtual_addr) ==
    /\ vmm_last.op = "map"
    /\ vmm_last.round_trip
    /\ vmm_last.space = space
    /\ vmm_last.ret = virtual_addr

\* the state after unmap of virtual_addr in space has returned
UnmapReturns(k, op, space, virtual_addr) ==
    /\ SetKernel(k)
    /\ vmm_last' = IF UnmapsLastMap(space, virtual_addr)
                   THEN [vmm_last EXCEPT !.op = op]
                   ELSE [VmmCall(op) EXCEPT !.space = space, !.ret = virtual_addr]

VmmUnmapPage ==
    /\ VmmRuns
    /\ \E space \in RootedSpaces, v \in VirtualPages :
         \E k \in vmm_unmap_page(Kernel, space, v) :
             UnmapReturns(k, "unmap_page", space, v)
    /\ UNCHANGED <<memory_regions, env_vars, ipc_last, sent_log, recv_log, sched_last>>

UnmapVirtualAddress ==
    /\ VmmRuns
    /\ \E space \in RootedSpaces, v \in VirtualPages :
         \E m \in unmap_virtual_address(mem, SpaceAt(Kernel, space).page_table_root, v) :
             UnmapReturns([Kernel EXCEPT !.mem = m], "unmap", space, v)
    /\ UNCHANGED <<memory_regions, env_vars, ipc_last, sent_log, recv_log, sched_last>>

NextPT ==
    \/ VmmBoot
    \/ VmmInit
    \/ VmmMapPage
    \/ VmmUnmapPage
    \/ UnmapVirtualAddress

SpecPT == Init /\ [][NextPT]_vars

NextVMM ==
    \/ VmmBoot
    \/ VmmInit
    \/ VmmCreateAddressSpace
    \/ VmmAllocMemory
    \/ VmmAllocKernelMemory
    \/ VmmFreeMemory
    \/ VmmFreeKernelMemory

SpecVMM == Init /\ [][NextVMM]_vars

\* the memory map of the boot with two blocks of order 1: two regions of two
\* frames, which the allocator merges into a block each, and UndoSingles
\* regions of one frame each at the odd frames from 9 on
UndoSingles == 4
UndoMap ==
    <<Region(2 * PAGE_SIZE, 2 * PAGE_SIZE, MEMORY_AVAILABLE),
      Region(6 * PAGE_SIZE, 2 * PAGE_SIZE, MEMORY_AVAILABLE)>>
    \o [i \in 1 .. UndoSingles |-> Region((2 * i + 7) * PAGE_SIZE, PAGE_SIZE, MEMORY_AVAILABLE)]
UndoFrames == <<2, 3, 6, 7>> \o [i \in 1 .. UndoSingles |-> 2 * i + 7]

\* the boot code: pmm_set_memory_map(UndoMap), then every available frame is
\* handed to the allocator with pmm_free_page
UndoBoot ==
    /\ last.op = "none"
    /\ \E r \in pmm_set_memory_map(pmm, UndoMap) :
         /\ memory_regions' = r.regions
         /\ pmm' \in hand_over_all({r.pmm}, UndoFrames)
    /\ handed' = {UndoFrames[i] : i \in 1 .. Len(UndoFrames)}
    /\ last' = Call("hand_over", 0, UndoFrames[Len(UndoFrames)])
    /\ UNCHANGED <<allocated, non_pmm_vars>>

\* the allocations and frees of the kernel address space after that boot
NextUndo ==
    \/ UndoBoot
    \/ VmmInit
    \/ VmmAllocMemory
    \/ VmmAllocKernelMemory
    \/ VmmFreeMemory
    \/ VmmFreeKernelMemory

SpecUndo == Init /\ [][NextUndo]_vars

\* the memory map of the boot with a block of half the memory: one region of
\* four frames, which the allocator merges into a block of order 2, and
\* AdmissionSingles regions of one frame each at the odd frames from 9 on
AdmissionSingles == 4
AdmissionMap ==
    <<Region(4 * PAGE_SIZE, 4 * PAGE_SIZE, MEMORY_AVAILABLE)>>
    \o [i \in 1 .. AdmissionSingles |->
            Region((2 * i + 7) * PAGE_SIZE, PAGE_SIZE, MEMORY_AVAILABLE)]
AdmissionFrames == <<4, 5, 6, 7>> \o [i \in 1 .. AdmissionSingles |-> 2 * i + 7]

\* the boot code: pmm_set_memory_map(AdmissionMap), then every available
\* frame is handed to the allocator with pmm_free_page
AdmissionBoot ==
    /\ last.op = "none"
    /\ \E r \in pmm_set_memory_map(pmm, AdmissionMap) :
         /\ memory_regions' = r.regions
         /\ pmm' \in hand_over_all({r.pmm}, AdmissionFrames)
    /\ handed' = {AdmissionFrames[i] : i \in 1 .. Len(AdmissionFrames)}
    /\ last' = Call("hand_over", 0, AdmissionFrames[Len(AdmissionFrames)])
    /\ UNCHANGED <<allocated, non_pmm_vars>>

\* pmm_get_total_memory() / 2 and pmm_get_free_memory()
half_of_total(p) == (((p.total_pages % (2 ^ 20)) * PAGE_SIZE)) \div 2
free_memory_of(p) == (p.free_pages % (2 ^ 20)) * PAGE_SIZE

\* the sizes requested around the boundary: a page, half of the total memory
\* and one byte more
AdmissionSizes == {PAGE_SIZE, half_of_total(pmm), half_of_total(pmm) + 1}

vmm_can_allocate_memory(p, requested_size) ==
    IF vmm_validate_allocation(p, requested_size) THEN 1 ELSE 0

VmmCanAllocateMemory ==
    /\ VmmRuns
    /\ \E size \in AdmissionSizes :
         vmm_last' = [VmmCall("can") EXCEPT
                          !.size = size,
                          !.free_memory = free_memory_of(pmm),
                          !.status = vmm_can_allocate_memory(pmm, size)]
    /\ UNCHANGED <<pmm, mem, ipc, vmm, sched>>
    /\ UNCHANGED <<memory_regions, env_vars, ipc_last, sent_log, recv_log, sched_last>>

AdmissionAlloc ==
    /\ VmmRuns
    /\ \E size \in AdmissionSizes, flags \in FlagSets :
         \E r \in vmm_alloc_memory(Kernel, kernel_address_space_addr, size, flags) :
             /\ SetKernel(r.k)
             /\ vmm_last' = [VmmCall("alloc") EXCEPT
                                 !.space = kernel_address_space_addr,
                                 !.pages = page_count_of(size),
                                 !.ret = r.ret,
                                 !.memory = r.memory,
                                 !.size = size,
                                 !.free_memory = free_memory_of(pmm)]
    /\ UNCHANGED <<memory_regions, env_vars, ipc_last, sent_log, recv_log, sched_last>>

NextAdmission ==
    \/ AdmissionBoot
    \/ VmmInit
    \/ VmmCanAllocateMemory
    \/ AdmissionAlloc
    \/ VmmFreeKernelMemory

SpecAdmission == Init /\ [][NextAdmission]_vars

\* every set of flags over VMM_READ, VMM_WRITE, VMM_EXEC and VMM_USER
AllFlagSets == SUBSET {VMM_READ, VMM_WRITE, VMM_EXEC, VMM_USER}
\* the page mapped with them: 0x100000, where vmm_alloc_memory maps as well
FlagPages == {VMM_BASE}
FlagFrame == 14

\* the bits of the leaf entries the walk of virtual_addr ends in
leaf_bits(k, space, virtual_addr) ==
    {Entry(w.mem, w.pte.table, w.pte.index).bits :
     w \in {x \in walk_page_table(k.mem, SpaceAt(k, space).page_table_root, virtual_addr) :
            x.pte # NullPte}}

FlagsMapPage ==
    /\ VmmRuns
    /\ kernel_address_space_addr \in RootedSpaces
    /\ \E v \in FlagPages, flags \in AllFlagSets :
         \E r \in vmm_map_page(Kernel, kernel_address_space_addr, v, FlagFrame, flags) :
             /\ SetKernel(r.k)
             /\ vmm_last' = [VmmCall("map") EXCEPT
                                 !.space = kernel_address_space_addr,
                                 !.ret = v, !.memory = FlagFrame,
                                 !.status = r.ret,
                                 !.flags = flags,
                                 !.leaf = IF r.ret = 0
                                          THEN leaf_bits(r.k, kernel_address_space_addr, v)
                                          ELSE {}]
    /\ UNCHANGED <<memory_regions, env_vars, ipc_last, sent_log, recv_log, sched_last>>

\* the state after an allocation of one page with `flags` has returned r
FlagsAllocReturns(r, flags) ==
    /\ SetKernel(r.k)
    /\ vmm_last' = [VmmCall("alloc") EXCEPT
                        !.space = kernel_address_space_addr,
                        !.pages = 1,
                        !.ret = r.ret,
                        !.memory = r.memory,
                        !.flags = flags,
                        !.leaf = IF r.ret # VNULL
                                 THEN leaf_bits(r.k, kernel_address_space_addr, r.ret)
                                 ELSE {}]

FlagsAllocMemory ==
    /\ VmmRuns
    /\ \E flags \in AllFlagSets :
         \E r \in vmm_alloc_memory(Kernel, kernel_address_space_addr, PAGE_SIZE, flags) :
             FlagsAllocReturns(r, flags)
    /\ UNCHANGED <<memory_regions, env_vars, ipc_last, sent_log, recv_log, sched_last>>

FlagsAllocKernelMemory ==
    /\ VmmRuns
    /\ \E r \in vmm_alloc_kernel_memory(Kernel, PAGE_SIZE) :
         FlagsAllocReturns(r, {VMM_KERNEL, VMM_READ, VMM_WRITE})
    /\ UNCHANGED <<memory_regions, env_vars, ipc_last, sent_log, recv_log, sched_last>>

NextFlags ==
    \/ VmmBoot
    \/ VmmInit
    \/ FlagsMapPage
    \/ FlagsAllocMemory
    \/ FlagsAllocKernelMemory
    \/ VmmUnmapPage

SpecFlags == Init /\ [][NextFlags]_vars

---------------------------------------------------------------------------
(* Actions of the scheduler *)

\* a call of scheduler.c that loops for ever keeps the processor
SchedRuns == sched_last.returns

SchedCall(op, ret, returns) ==
    [NoSchedCall EXCEPT !.op = op, !.ret = ret, !.returns = returns]

\* the state after a call that changes scheduler.c's data only has ended as r
SchedReturns(r, op) ==
    /\ sched' = r.sched
    /\ sched_last' = SchedCall(op, 0, r.returns)
    /\ UNCHANGED <<pmm_vars, env_vars, mem, ipc_vars, vmm_vars>>

SchedulerInit ==
    /\ SchedRuns
    /\ SchedReturns([returns |-> TRUE, sched |-> scheduler_init(sched)], "init")

SchedulerStart ==
    /\ SchedRuns
    /\ \E r \in scheduler_start(Kernel) :
         /\ SetKernel(r.k)
         /\ sched_last' = SchedCall("start", r.ret, r.returns)
    /\ UNCHANGED <<memory_regions, env_vars, ipc_last, sent_log, recv_log, vmm_last>>

\* the task slots that hold a live task: created and not terminated
LiveTasks(s) == {t \in TaskSlots : s.tasks[t].task_id # 0 /\ s.tasks[t].state # TASK_TERMINATED}

\* stack memory is available: vmm_alloc_kernel_memory(8192) would succeed
StackAvailable(k) == \E a \in vmm_alloc_kernel_memory(k, StackSize) : a.ret # VNULL

\* scheduler_create_task gets as far as the allocation of the stack: the
\* table is not full and the search has found a slot
ReachesStack(s) == ~u32_ge(s.task_count, MAX_TASKS) /\ free_slot(s) # NULL

SchedulerCreateTask ==
    /\ SchedRuns
    /\ \E priority \in Priorities :
         \E r \in scheduler_create_task(Kernel, priority) :
             /\ SetKernel(r.k)
             /\ sched_last' = [SchedCall("create", r.ret, TRUE) EXCEPT
                                   !.stack_available = StackAvailable(Kernel),
                                   !.reached = ReachesStack(sched),
                                   !.live_before = Cardinality(LiveTasks(sched))]
    /\ UNCHANGED <<memory_regions, env_vars, ipc_last, sent_log, recv_log, vmm_last>>

\* the state after scheduler_create_thread has returned r
ThreadReturns(r) ==
    /\ sched' = r.sched
    /\ sched_last' = SchedCall("create_thread", r.ret, TRUE)

SchedulerCreateThread ==
    /\ SchedRuns
    /\ \E stack \in Stacks : ThreadReturns(scheduler_create_thread(sched, stack))
    /\ UNCHANGED <<pmm_vars, env_vars, mem, ipc_vars, vmm_vars>>

SchedulerYield ==
    /\ SchedRuns
    /\ SchedReturns(scheduler_yield(sched), "yield")

SchedulerSchedule ==
    /\ SchedRuns
    /\ SchedReturns(scheduler_schedule(sched), "schedule")

\* the state after a call on the task task_id that changes scheduler.c's data
\* only has returned ret and left the scheduler as s
TaskCallReturns(s, op, task_id, ret) ==
    /\ sched' = s
    /\ sched_last' = [SchedCall(op, ret, TRUE) EXCEPT !.task_id = task_id]
    /\ UNCHANGED <<pmm_vars, env_vars, mem, ipc_vars, vmm_vars>>

SchedulerTerminateTask ==
    /\ SchedRuns
    /\ \E task_id \in TaskIds :
         \E r \in scheduler_terminate_task(Kernel, task_id) :
             /\ SetKernel(r.k)
             /\ sched_last' = [SchedCall("terminate", r.ret, TRUE) EXCEPT
                                   !.task_id = task_id]
    /\ UNCHANGED <<memory_regions, env_vars, ipc_last, sent_log, recv_log, vmm_last>>

SchedulerBlockTask ==
    /\ SchedRuns
    /\ \E reason \in Reasons : SchedReturns(scheduler_block_task(sched, reason), "block")

SchedulerUnblockTask ==
    /\ SchedRuns
    /\ \E task_id \in TaskIds :
         TaskCallReturns(scheduler_unblock_task(sched, task_id), "unblock", task_id, 0)

SchedulerSetPriority ==
    /\ SchedRuns
    /\ \E task_id \in TaskIds, priority \in Priorities :
         TaskCallReturns(scheduler_set_priority(sched, task_id, priority),
                         "set_priority", task_id, 0)

SchedulerGetPriority ==
    /\ SchedRuns
    /\ \E task_id \in TaskIds :
         TaskCallReturns(sched, "get_priority", task_id,
                         scheduler_get_priority(sched, task_id))

NextSched ==
    \/ VmmBoot
    \/ SchedulerInit
    \/ SchedulerStart
    \/ SchedulerCreateTask
    \/ SchedulerCreateThread
    \/ SchedulerYield
    \/ SchedulerSchedule
    \/ SchedulerTerminateTask
    \/ SchedulerBlockTask
    \/ SchedulerUnblockTask
    \/ SchedulerSetPriority
    \/ SchedulerGetPriority

SpecSched == Init /\ [][NextSched]_vars

---------------------------------------------------------------------------
(* Properties of the physical frame allocator *)

RECURSIVE ListPagesFrom(_)
ListPagesFrom(k) ==
    IF k > MAX_ORDER THEN 0
    ELSE pages_from_order(k) * Len(pmm.free_lists[k]) + ListPagesFrom(k + 1)

\* sum over k of 2^k * |free_list[k]|
ListPages == ListPagesFrom(0)

\* the frames covered by the blocks on the free-lists
FreeListFrames ==
    UNION {UNION {BlockFrames(pmm.free_lists[k][i], k) : i \in 1 .. Len(pmm.free_lists[k])} :
           k \in 0 .. MAX_ORDER}

UsedPages == Cardinality(AllocatedFrames)

MapIsSet == last.op \notin {"none", "init"}

\* C1: in every state reached from pmm_init + set_memory_map by alloc(order) and
\* free(block, order) of blocks obtained from alloc, the frames on the free-lists
\* equal free_pages, and free_pages plus the used frames equal total_pages.
C1_FrameConservation ==
    (MapIsSet /\ handed = {}) =>
        /\ ListPages = pmm.free_pages
        /\ pmm.free_pages + UsedPages = pmm.total_pages

\* C6: every outstanding block returned by alloc(order) is aligned on 2^order
\* frames and consists of 2^order frames of the allocator's memory; no frame
\* belongs to two outstanding blocks; no frame of an outstanding block lies in a
\* block on a free-list.
C6_ExclusiveOwnership ==
    /\ \A a \in allocated :
        /\ a.block # NULL
        /\ a.block % pages_from_order(a.order) = 0
        /\ BlockFrames(a.block, a.order) \subseteq handed
        /\ BlockFrames(a.block, a.order) \cap FreeListFrames = {}
    /\ \A a, b \in allocated :
        a # b => BlockFrames(a.block, a.order) \cap BlockFrames(b.block, b.order) = {}

\* two outstanding blocks, one of them obtained by splitting, beside a free block
C6_Witness ==
    /\ Cardinality(allocated) >= 2
    /\ FreeListFrames # {}
    /\ \E a \in allocated : a.order = 1

\* C7: after every alloc and free, for every order k < MAX_ORDER no block and
\* its buddy are both on free_list[k].
C7_NoFreeBuddies ==
    \A k \in 0 .. (MAX_ORDER - 1) :
        \A i \in 1 .. Len(pmm.free_lists[k]) :
            ~InList(find_buddy(pmm.free_lists[k][i], k), pmm.free_lists[k])

\* a free of an order-0 block has just merged it with its free buddy
C7_Witness ==
    /\ last.op \in {"hand_over", "free"}
    /\ last.order = 0
    /\ \E k \in 1 .. MAX_ORDER : InList(Min(last.ret, find_buddy(last.ret, 0)), pmm.free_lists[k])

\* C8: right after set_memory_map with a map holding an available region of two
\* or more frames, the free-lists cover exactly the available frames and
\* alloc(0) returns a frame of an available region.
C8_SetMemoryMapSeeds ==
    (/\ last.op = "set_memory_map"
     /\ \E i \in 1 .. Len(memory_regions) : Cardinality(RegionFrames(memory_regions[i])) >= 2)
    =>
        /\ FreeListFrames = AvailableFrames
        /\ pmm_alloc_pages(pmm, 0).ret \in AvailableFrames \ {NULL}

\* C9: b = alloc(k) immediately followed by free(b, k) leaves the total, free
\* and used frame counts as they were before the alloc.
C9_RoundTrip ==
    last.op = "free_after_alloc" =>
        /\ pmm.total_pages = last.pre_total
        /\ pmm.free_pages = last.pre_free
        /\ pmm.total_pages - pmm.free_pages = last.pre_total - last.pre_free

\* the round trip of a block that was obtained by splitting a larger one
C9_Witness ==
    /\ last.op = "free_after_alloc"
    /\ last.ret # NULL
    /\ last.order = 0
    /\ pmm.free_lists[0] = <<last.ret>>

\* the 32-bit value is the byte size of `frames` frames, not reduced modulo 2^32
ExactBytes(value, frames) ==
    /\ frames >= 0
    /\ frames < 2 ^ 20
    /\ value >= 0
    /\ value = frames * PAGE_SIZE

\* C40: for every memory map set and after any sequence of allocations and
\* frees, free_pages <= total_pages and pmm_get_total_memory,
\* pmm_get_free_memory and pmm_get_used_memory return total_pages * 4096,
\* free_pages * 4096 and (total_pages - free_pages) * 4096 without
\* reduction modulo 2^32
C40_StatisticsExact ==
    MapIsSet =>
        /\ pmm.free_pages <= pmm.total_pages
        /\ ExactBytes(pmm_get_total_memory(pmm), pmm.total_pages)
        /\ ExactBytes(pmm_get_free_memory(pmm), pmm.free_pages)
        /\ ExactBytes(pmm_get_used_memory(pmm), pmm.total_pages - pmm.free_pages)

\* pmm_get_total_memory and pmm_get_free_memory return the counters times
\* 4096 for the memory maps of this model
CountersInBytes ==
    MapIsSet =>
        /\ ExactBytes(pmm_get_total_memory(pmm), pmm.total_pages)
        /\ ExactBytes(pmm_get_free_memory(pmm), pmm.free_pages)

\* what the code does once free_pages has passed total_pages: the used
\* memory is the difference reduced modulo 2^32, 2^31 bytes or more
UsedMemoryWraps ==
    (MapIsSet /\ pmm.free_pages > pmm.total_pages) =>
        /\ pmm_get_used_memory(pmm) < 0
        /\ pmm_get_used_memory(pmm) = (pmm.total_pages - pmm.free_pages) * PAGE_SIZE

\* free_pages has passed total_pages
FreeAboveTotal ==
    MapIsSet /\ pmm.free_pages > pmm.total_pages

---------------------------------------------------------------------------
(* Properties of the message queues *)

LinkedMessages(queue) == Linked(queue.message_list.head, MessageNext(mem), NFrames)

\* every message_queue_t there is: the system queue and the queues in the frames
AllQueues == {system_message_queue_addr} \cup {f \in Frames : mem[f].kind = "queue"}
ServiceQueues == {ipc.service_registry[i].service_queue : i \in Slots} \ {NULL}

\* C4: for the system queue and every service queue, current_messages is the
\* number of messages linked in the queue's list and is at most max_messages
C4_QueueCount ==
    \A q \in AllQueues \cup ServiceQueues :
        LET queue == QueueAt(Kernel, q)
        IN  /\ queue.current_messages = Len(LinkedMessages(queue))
            /\ u32_ge(queue.max_messages, queue.current_messages)

\* a registered service whose own queue is full while the system queue holds a
\* message, some message having been received before
C4_Witness ==
    /\ \E i \in Slots :
         /\ ipc.service_registry[i].service_queue \in Frames \ {NULL}
         /\ ipc.registered_services.head = i
         /\ LET queue == mem[ipc.service_registry[i].service_queue]
            IN  /\ queue.current_messages = ServiceQueueMax
                /\ Len(LinkedMessages(queue)) = ServiceQueueMax
    /\ ipc.system_message_queue.current_messages > 0
    /\ \E q \in QueueIds : recv_log[q] # <<>>

IsPrefix(s, t) == Len(s) <= Len(t) /\ SubSeq(t, 1, Len(s)) = s

\* C5: for every queue, the messages the successful ipc_receive_message calls
\* returned are, in order, a prefix of the messages the successful
\* ipc_send_message calls to that queue accepted
C5_FifoPrefix == \A q \in QueueIds : IsPrefix(recv_log[q], sent_log[q])

\* the kernel state after the step
KernelAfter == [pmm |-> pmm', mem |-> mem', ipc |-> ipc', vmm |-> vmm', sched |-> sched']

\* ipc_receive_message has returned -1: it handed no message to its caller
ReceiveFails == IpcReceiveMessage /\ recv_log' = recv_log

\* the queue q holds the same messages in the same order after the step, and
\* its current_messages is the same
QueueKept(q) ==
    /\ QueueMessages(KernelAfter, q) = QueueMessages(Kernel, q)
    /\ QueueAt(KernelAfter, q).current_messages = QueueAt(Kernel, q).current_messages

\* C37: ipc_receive_message that fails because the buffer is smaller than the
\* message at the head leaves the queue unchanged: the message is still at
\* the head and current_messages is not decremented (a receive that fails on
\* an empty queue changes no queue either)
C37_SmallBufferKeeps ==
    [][ReceiveFails => \A q \in AllQueues : QueueKept(q)]_vars

\* what the code does: a receive that fails with a message at the head has
\* unlinked that message and decremented current_messages; the page of the
\* message stays allocated and is linked in no queue
SmallBufferDrops ==
    [][ReceiveFails =>
           \A q \in AllQueues :
               \/ QueueKept(q)
               \/ /\ QueueMessages(Kernel, q) # <<>>
                  /\ QueueMessages(KernelAfter, q) = Tail(QueueMessages(Kernel, q))
                  /\ QueueAt(KernelAfter, q).current_messages
                         = u32_dec(QueueAt(Kernel, q).current_messages)
                  /\ mem'[Head(QueueMessages(Kernel, q))].kind = "message"
                  /\ \E length \in BufferLengths :
                         length < mem'[Head(QueueMessages(Kernel, q))].message_length]_vars

\* ipc_receive_message was called with a timeout on an empty queue
WaitsOnEmpty ==
    /\ "op" \in DOMAIN ipc_last
    /\ ipc_last.op = "recv"
    /\ ipc_last.empty
    /\ ipc_last.timeout # 0

\* C32: ipc_receive_message with a non-zero timeout on an empty queue
\* suspends the calling task instead of busy-waiting: the running task is
\* blocked or sleeping and the scheduler has switched
C32_ReceiveSuspends ==
    WaitsOnEmpty => (ipc_last.suspended /\ ipc_last.rescheduled)

\* what the code does: the loop counts up to the timeout, the call returns
\* -1 and the scheduler is as it was
ReceiveBusyWaits ==
    WaitsOnEmpty =>
        /\ ipc_last.waited = ipc_last.timeout
        /\ ipc_last.ret = -1
        /\ ~ipc_last.suspended
        /\ ~ipc_last.rescheduled

\* a receive with the longest timeout has found the queue empty
LongWait == WaitsOnEmpty /\ ipc_last.timeout = MaxTimeout

---------------------------------------------------------------------------
(* Properties of the virtual memory manager *)

\* the frames get_physical_address can return for page i of the range the
\* last vmm_alloc_memory returned
Translations(i) ==
    get_physical_address(mem, SpaceAt(Kernel, vmm_last.space).page_table_root,
                         AddPages(vmm_last.ret, i))

\* C10: after a successful vmm_alloc_memory or vmm_alloc_kernel_memory, for
\* every flags value, every page of the returned range translates, and page i
\* translates to frame i of the block pmm_alloc_pages gave.
C10_AllocMapsRange ==
    (vmm_last.op = "alloc" /\ vmm_last.ret # VNULL) =>
        \A i \in 0 .. vmm_last.pages - 1 : Translations(i) = {vmm_last.memory + i}

\* a successful allocation of two pages whose pages translate to the two
\* frames of the block
C10_Mapped ==
    /\ vmm_last.op = "alloc" /\ vmm_last.ret # VNULL /\ vmm_last.pages = 2
    /\ \A i \in 0 .. 1 : Translations(i) = {vmm_last.memory + i}

\* C11: after v = alloc(space, size, flags) has succeeded and free(space, v,
\* size) has been called, no page of the range is mapped and the free-frame
\* count of the allocator is back at its value before the alloc
C11_FreeReturnsFrames ==
    (vmm_last.op = "free" /\ vmm_last.frees) =>
        /\ \A i \in 0 .. vmm_last.pages - 1 : Translations(i) = {NULL}
        /\ pmm.free_pages = vmm_last.free_before

\* the part of C11 the code keeps: the freed range is unmapped
FreeUnmapsRange ==
    (vmm_last.op = "free" /\ vmm_last.frees) =>
        \A i \in 0 .. vmm_last.pages - 1 : Translations(i) = {NULL}

\* the frames stay with the allocation: free leaves the free-frame count as
\* the alloc left it, below the count before the alloc
FreeKeepsFrames ==
    (vmm_last.op = "free" /\ vmm_last.frees) =>
        pmm.free_pages < vmm_last.free_before

\* C12: in a space without other live allocation, the allocation that repeats
\* an allocation that succeeded and was freed succeeds, for the sized pair and
\* for the kernel-memory pair, after any number of repetitions
C12_AllocFreeAlloc ==
    (vmm_last.op = "alloc" /\ vmm_last.again) => vmm_last.ret # VNULL

\* a repeated allocation that succeeds
AllocatedAgain == vmm_last.op = "alloc" /\ vmm_last.again /\ vmm_last.ret # VNULL

\* the pages of the range of n pages from base
PagesOf(base, n) == {AddPages(base, i) : i \in 0 .. n - 1}

\* C24: while an earlier allocation in the space is live, a further
\* allocation the allocator has a block for succeeds, and its range is
\* disjoint from the range of the live allocation
C24_DisjointAllocations ==
    (vmm_last.op = "alloc" /\ vmm_last.live /\ vmm_last.memory # NULL) =>
        /\ vmm_last.ret # VNULL
        /\ PagesOf(vmm_last.ret, vmm_last.pages)
               \cap PagesOf(vmm_last.live_base, vmm_last.live_pages) = {}

\* a further allocation fails although the allocator had a block for it
FurtherAllocationFails ==
    /\ vmm_last.op = "alloc" /\ vmm_last.live /\ vmm_last.memory # NULL
    /\ vmm_last.ret = VNULL

\* a further allocation returns the range of the live allocation
FurtherAllocationOverlaps ==
    /\ vmm_last.op = "alloc" /\ vmm_last.live /\ vmm_last.memory # NULL
    /\ vmm_last.ret = vmm_last.live_base

\* every further allocation either fails or returns the range of the live one
NoDisjointAllocation ==
    (vmm_last.op = "alloc" /\ vmm_last.live /\ vmm_last.memory # NULL) =>
        vmm_last.ret \in {VNULL, vmm_last.live_base}

\* C25: when vmm_alloc_memory fails because the mapping of a page fails, the
\* pages of the range translate as before the call, so no page mapped by the
\* call remains mapped and every earlier mapping is unchanged, and the free
\* page count of the allocator is as before the call
C25_FailedAllocUndone ==
    (vmm_last.op = "alloc" /\ vmm_last.ret = VNULL /\ vmm_last.memory # NULL) =>
        /\ RangeTranslations(Kernel, vmm_last.space) = vmm_last.before
        /\ pmm.free_pages = vmm_last.free_before

\* the mapping failed at the second page: the first page was unmapped before
\* the call, was mapped by it and is unmapped again
SecondPageFailed ==
    /\ vmm_last.op = "alloc" /\ vmm_last.ret = VNULL /\ vmm_last.memory # NULL
    /\ vmm_last.pages = 2
    /\ vmm_last.before[VMM_BASE] = {NULL}
    /\ vmm_last.before[AddPage(VMM_BASE)] # {NULL}
    /\ RangeTranslations(Kernel, vmm_last.space)[VMM_BASE] = {NULL}

\* the frames held by messages: allocated by create_message and not returned
\* to the allocator by ipc_receive_message
MessageFrames == {f \in Frames : mem[f].kind = "message"}

\* the queues the message in frame f is linked in
QueuesHolding(f) ==
    {q \in AllQueues \cup ServiceQueues :
        \E i \in 1 .. Len(LinkedMessages(QueueAt(Kernel, q))) :
            LinkedMessages(QueueAt(Kernel, q))[i] = f}

\* C19: every frame allocated for a message and not returned to the allocator
\* is linked in exactly one queue, so the number of frames held by messages
\* equals the number of messages linked in queues
C19_MessageFrames ==
    \A f \in MessageFrames : Cardinality(QueuesHolding(f)) = 1

\* a frame returned to the allocator by ipc_receive_message while another
\* message stays linked
MessageFrameReturned ==
    /\ \E q \in QueueIds : Len(recv_log[q]) > 0
    /\ MessageFrames # {}
    /\ C19_MessageFrames

\* C22: a pmm_alloc_pages that returns NULL leaves every free list and the
\* counters of the allocator as they were
C22_FailedAllocNoEffect ==
    [][(PmmAllocPages /\ last'.ret = NULL) => pmm' = pmm]_vars

\* an allocation was refused while the allocator holds free pages
AllocRefused ==
    /\ last.op = "alloc"
    /\ last.ret = NULL
    /\ pmm.free_pages > 0
    /\ \E order \in 0 .. MAX_ORDER : pmm.free_lists[order] # <<>>

\* C23: pmm_free_pages(B, k) of a block raises free_pages by exactly 2^k,
\* whether or not B merges with its buddy
C23_FreeCounts ==
    [][(PmmFreePages \/ PmmHandOver)
           => pmm'.free_pages = pmm.free_pages + pages_from_order(last'.order)]_vars

\* two buddies of order 0 are allocated at the same time
BuddiesAllocated ==
    \E a, b \in allocated :
        a.order = 0 /\ b.order = 0 /\ b.block = find_buddy(a.block, 0)

\* pmm_alloc_pages never hands out both halves of a block
NeverBuddiesAllocated == ~BuddiesAllocated

\* a free that does not merge adds exactly the pages of the block
C23_UnmergedFreeCounts ==
    [][((PmmFreePages \/ PmmHandOver)
            /\ InList(last'.ret, pmm'.free_lists[last'.order]))
           => pmm'.free_pages = pmm.free_pages + pages_from_order(last'.order)]_vars

\* pmm_alloc_pages(order) returns a block after it has split the head of
\* the free list of a higher order
SplitsBlock ==
    /\ PmmAllocPages
    /\ last'.ret # NULL
    /\ find_order(pmm.free_lists, last'.order) > last'.order

\* the block the split starts from, its order, and its end
SplitFrom == Head(pmm.free_lists[find_order(pmm.free_lists, last'.order)])
SplitOrder == find_order(pmm.free_lists, last'.order)
SplitEnd == SplitFrom + pages_from_order(SplitOrder)

\* C33: pmm_alloc_pages(order) that takes a free block of order k > order
\* returns the lowest 2^order frames of that block and leaves exactly one new
\* free block, the upper half, on each of free_lists[order] .. free_lists[k-1]
C33_SplitPolicy ==
    [][SplitsBlock =>
           /\ last'.ret = SplitFrom
           /\ \A j \in last'.order .. (SplitOrder - 1) :
                  pmm'.free_lists[j] = <<SplitFrom + pages_from_order(j)>>]_vars

\* what the code does: it returns the highest 2^order frames of the block and
\* leaves no new free block, free_lists[order] .. free_lists[k-1] stay empty
SplitTakesTop ==
    [][SplitsBlock =>
           /\ last'.ret = SplitEnd - pages_from_order(last'.order)
           /\ \A j \in last'.order .. (SplitOrder - 1) : pmm'.free_lists[j] = <<>>
           /\ pmm'.free_lists[SplitOrder] = Tail(pmm.free_lists[SplitOrder])]_vars

\* the live entries of the registry: the nodes linked in registered_services
LiveServices ==
    {Linked(list_get_head(ipc.registered_services), ServiceNext(ipc.service_registry),
            MAX_SERVICES + 1)[i] :
        i \in 1 .. Len(Linked(list_get_head(ipc.registered_services),
                              ServiceNext(ipc.service_registry), MAX_SERVICES + 1))}

\* no two live entries carry the same name
UniqueNames ==
    \A s1, s2 \in LiveServices :
        ipc.service_registry[s1].service_name = ipc.service_registry[s2].service_name
            => s1 = s2

\* C17: ipc_register_service(name, h) fails as already registered exactly when
\* ipc_lookup_service(name) finds a service at the call, and succeeds
\* otherwise while fewer than MAX_SERVICES services are registered; at no
\* time do two live registry entries carry the same name
C17_NameUniqueness ==
    /\ UniqueNames
    /\ ("op" \in DOMAIN ipc_last /\ ipc_last.op = "register" /\ ipc_last.looked_up) =>
           /\ ipc_last.found # NULL => ipc_last.ret = -1
           /\ (ipc_last.found = NULL /\ u32_lt(ipc_last.count, MAX_SERVICES))
                  => ipc_last.ret = 0

\* a name is rejected although ipc_lookup_service does not find it
RejectedUnregistered ==
    /\ "op" \in DOMAIN ipc_last /\ ipc_last.op = "register" /\ ipc_last.looked_up
    /\ ipc_last.found = NULL /\ u32_lt(ipc_last.count, MAX_SERVICES)
    /\ ipc_last.ret = -1

\* C18: every name registered with a handler h and not yet passed to
\* ipc_unregister_service is found by ipc_lookup_service, with the handler h,
\* after any register and unregister calls on other names
C18_StaysRegistered ==
    \A n \in RegistryNames :
        Owners[n] # NULL =>
            /\ ipc_lookup_service(Kernel, n).returns
            /\ ipc_lookup_service(Kernel, n).ret = Owners[n]

\* a send to a queue with room while the allocator has a page
Send ==
    /\ "op" \in DOMAIN ipc_last
    /\ ipc_last.op = "send"
    /\ ipc_last.room
    /\ ipc_last.page

\* C21 as stated: every length up to 1024 is accepted and the message is
\* enqueued with that length; 1025 bytes are refused and neither the queue
\* nor the allocator changes
C21_SendLengths ==
    Send =>
        /\ ipc_last.length <= 1024 =>
               /\ ipc_last.ret = 0
               /\ ipc_last.queued = 1
               /\ ipc_last.tail_length = ipc_last.length
        /\ ipc_last.length = 1025 =>
               /\ ipc_last.ret = -1
               /\ ipc_last.unchanged

\* C21, amended: the lengths 1 .. 1024 are accepted and the message is
\* enqueued with that length; an empty payload and 1025 bytes are refused and
\* neither the queue nor the allocator changes
C21_SendLengthsNonEmpty ==
    Send =>
        /\ (ipc_last.length >= 1 /\ ipc_last.length <= 1024) =>
               /\ ipc_last.ret = 0
               /\ ipc_last.queued = 1
               /\ ipc_last.tail_length = ipc_last.length
        /\ (ipc_last.length = 0 \/ ipc_last.length = 1025) =>
               /\ ipc_last.ret = -1
               /\ ipc_last.unchanged

\* a message of 1024 bytes has been enqueued
LargestSent ==
    /\ Send
    /\ ipc_last.length = sizeof_message_data
    /\ ipc_last.ret = 0
    /\ ipc_last.tail_length = sizeof_message_data

\* a payload of 1025 bytes has been refused
TooLargeRefused ==
    /\ Send
    /\ ipc_last.length = sizeof_message_data + 1
    /\ ipc_last.ret = -1

\* a broadcast of a payload ipc_send_message accepts
Broadcast ==
    /\ "op" \in DOMAIN ipc_last
    /\ ipc_last.op = "broadcast"
    /\ ipc_last.valid

\* C20: a broadcast returns, and when the allocator has a page for every send
\* it enqueues one copy on the system queue and on the queue of each
\* registered service that is not full, none on a full queue, and returns the
\* number of distinct queues that took a copy
C20_BroadcastCount ==
    Broadcast =>
        /\ ipc_last.returns
        /\ ipc_last.supplied =>
               /\ \A q \in ipc_last.targets :
                      ipc_last.copies[q] = IF q \in ipc_last.room THEN 1 ELSE 0
               /\ ipc_last.ret =
                      Cardinality({q \in ipc_last.targets : ipc_last.copies[q] > 0})

\* when every registered service has a queue of its own the broadcast reaches
\* every queue with room once
BroadcastToOwnQueues ==
    (Broadcast /\ ipc_last.own_queues) => C20_BroadcastCount

\* a broadcast that skipped the full queue of a service and reached the
\* system queue
BroadcastSkipsFull ==
    /\ Broadcast
    /\ ipc_last.supplied
    /\ ipc_last.own_queues
    /\ ipc_last.returns
    /\ system_message_queue_addr \in ipc_last.room
    /\ ipc_last.targets \ ipc_last.room # {}
    /\ ipc_last.ret = 1

\* the translations of the space of the last call
Translated == TranslationsOf(Kernel, vmm_last.space)

\* the translation of every page but that of the last call is as before the map
OthersUnchanged ==
    \A v \in VirtualPages \ {vmm_last.ret} : \A offset \in Offsets :
        Translated[v, offset] = vmm_last.before[v, offset]

\* C13: after map(root, v, p, flags) of an unmapped canonical v with Read has
\* succeeded, v + off translates to p + off for every offset; after the
\* following unmap(root, v), v translates to null again; the translation of
\* every other page is the same before the map, between the calls and after
C13_MapRoundTrip ==
    /\ (vmm_last.op = "map" /\ vmm_last.round_trip) =>
           /\ \A offset \in Offsets :
                  Translated[vmm_last.ret, offset] = {vmm_last.memory * PAGE_SIZE + offset}
           /\ OthersUnchanged
    /\ (vmm_last.op \in {"unmap", "unmap_page"} /\ vmm_last.round_trip) =>
           /\ \A offset \in Offsets : Translated[vmm_last.ret, offset] = {NULL}
           /\ OthersUnchanged

\* the round trip holds when every table was supplied and the unmap is not
\* vmm_unmap_page of the address 0, which returns without unmapping
RoundTripWithTables ==
    (TablesAllocated /\ ~(vmm_last.op = "unmap_page" /\ vmm_last.ret = VNULL))
        => C13_MapRoundTrip

\* a round trip completed while another page of the same table stays mapped
RoundTripBesideMapping ==
    /\ vmm_last.op = "unmap" /\ vmm_last.round_trip /\ vmm_last.ret = VMM_BASE
    /\ Translated[VNULL, 0] # {NULL}
    /\ TablesAllocated

\* the request is half of the total memory, that much memory is free and the
\* size is below the cap of 100 MiB
HalfRequested ==
    /\ vmm_last.op \in {"can", "alloc"}
    /\ vmm_last.size = half_of_total(pmm)
    /\ vmm_last.size <= vmm_last.free_memory
    /\ vmm_last.size <= 100 * 1024 * 1024

\* C26: vmm_can_allocate_memory(total / 2) returns 0 and vmm_alloc_memory of
\* total / 2 bytes returns NULL, even when that much memory is free and the
\* size is below the cap of 100 MiB
C26_HalfRejected ==
    HalfRequested =>
        /\ (vmm_last.op = "can" => vmm_last.status = 0)
        /\ (vmm_last.op = "alloc" => vmm_last.ret = VNULL)

\* the code admits the half: vmm_can_allocate_memory(total / 2) returns 1
HalfAdmitted ==
    (HalfRequested /\ vmm_last.op = "can") => vmm_last.status = 1

\* one byte above the half is refused by both calls
AboveHalfRejected ==
    (/\ vmm_last.op \in {"can", "alloc"}
     /\ vmm_last.size = half_of_total(pmm) + 1) =>
        /\ (vmm_last.op = "can" => vmm_last.status = 0)
        /\ (vmm_last.op = "alloc" => vmm_last.ret = VNULL)

\* vmm_alloc_memory of half of the total memory has returned the range
HalfAllocated ==
    HalfRequested /\ vmm_last.op = "alloc" /\ vmm_last.ret = VMM_BASE

\* C27: when the allocator cannot supply a frame for a missing interior table
\* on the path to virtual_addr, map_virtual_address returns an error, no
\* present interior entry holds anything but a table the allocator supplied,
\* and the leaf is not written (the code writes the leaf exactly when it
\* returns 0)
C27_MapOutOfMemory ==
    (vmm_last.op = "map" /\ vmm_last.starved) =>
        /\ vmm_last.status # 0
        /\ TablesAllocated

\* a starved map has returned 0
StarvedMapSucceeds ==
    vmm_last.op = "map" /\ vmm_last.starved /\ vmm_last.status = 0

\* a starved map always leaves a present entry that holds the address 0
StarvedMapInstallsNull ==
    (vmm_last.op = "map" /\ vmm_last.starved) => ~TablesAllocated

\* vmm_map_page or vmm_alloc_memory has written a leaf entry, in tables the
\* allocator supplied
LeafWritten ==
    /\ \/ vmm_last.op = "map" /\ vmm_last.status = 0
       \/ vmm_last.op = "alloc" /\ vmm_last.ret # VNULL
    /\ vmm_last.leaf # {}
    /\ TablesAllocated

\* C28: the leaf entry written for the flags F has PTE_P iff VMM_READ is in
\* F, PTE_W iff VMM_WRITE is in F, PTE_U iff VMM_USER is in F and PTE_NX iff
\* VMM_EXEC is not in F; the leaf of a kernel allocation has PTE_W and not PTE_U
C28_FlagTranslation ==
    LeafWritten =>
        \A bits \in vmm_last.leaf :
            /\ PTE_P \in bits <=> VMM_READ \in vmm_last.flags
            /\ PTE_W \in bits <=> VMM_WRITE \in vmm_last.flags
            /\ PTE_U \in bits <=> VMM_USER \in vmm_last.flags
            /\ PTE_NX \in bits <=> VMM_EXEC \notin vmm_last.flags
            /\ VMM_KERNEL \in vmm_last.flags => (PTE_W \in bits /\ PTE_U \notin bits)

\* the translation of VMM_READ, VMM_WRITE and VMM_USER, and the kernel case
LowFlagTranslation ==
    LeafWritten =>
        \A bits \in vmm_last.leaf :
            /\ PTE_P \in bits <=> VMM_READ \in vmm_last.flags
            /\ PTE_W \in bits <=> VMM_WRITE \in vmm_last.flags
            /\ PTE_U \in bits <=> VMM_USER \in vmm_last.flags
            /\ VMM_KERNEL \in vmm_last.flags => (PTE_W \in bits /\ PTE_U \notin bits)

\* no leaf entry has PTE_NX
NeverNoExecute ==
    LeafWritten => \A bits \in vmm_last.leaf : PTE_NX \notin bits

\* a leaf was written for flags without VMM_EXEC
NoExecRequested == LeafWritten /\ VMM_EXEC \notin vmm_last.flags

\* the leaf of a kernel allocation was written
KernelLeafWritten == LeafWritten /\ VMM_KERNEL \in vmm_last.flags

\* a failed vmm_alloc_memory is undone when the call allocates no table:
\* vmm_init has run before it and every table of the walks was supplied
FailedAllocUndoneWithTables ==
    (vmm_last.initialized /\ TablesAllocated) => C25_FailedAllocUndone

\* the mapping failed at the second page in that case
SecondPageFailedWithTables ==
    SecondPageFailed /\ vmm_last.initialized /\ TablesAllocated

---------------------------------------------------------------------------
(* Properties of the scheduler *)

\* the tasks: the slots scheduler_create_task or scheduler_create_thread has filled
Tasks == {t \in TaskSlots : sched.tasks[t].task_id # 0}

\* the nodes linked in the queue q, head first
QueueNodes(q) == Linked(list_get_head(sched[q]), TaskNext(sched.tasks), MAX_TASKS + 1)

\* how many times the task t is met on the walk of the queue q
Occurrences(q, t) == Len(SelectSeq(QueueNodes(q), LAMBDA node : node = t))

\* no call of scheduler.c creates a task: the search for a free slot wants a
\* slot in state TASK_TERMINATED, the zeroed table holds none, and once
\* scheduler_terminate_task(0) has made one, task_count has wrapped below zero
\* and stays at or above MAX_TASKS; so the scheduler never starts, no task
\* is current and the three queues stay empty
SchedulerNeverStarts ==
    /\ Tasks = {}
    /\ sched.scheduler_running = 0
    /\ scheduler_get_current_task(sched) = NULL
    /\ \A q \in {"ready_queue", "blocked_queue", "sleeping_queue"} : sched[q] = EmptyList
    /\ sched_last.op \in {"start", "create", "create_thread"} => sched_last.ret = -1

\* the slot of the task the last call returned the id of
Created == {t \in TaskSlots : sched.tasks[t].task_id = sched_last.ret}

\* C14: scheduler_create_task called while fewer than MAX_TASKS tasks are live
\* and stack memory is available returns the id of a task that is in state
\* TASK_READY and is the last element of the ready queue; so it fails for a
\* full table only when every slot holds a live task
C14_CreateSucceeds ==
    (/\ sched_last.op = "create"
     /\ sched_last.live_before < MAX_TASKS
     /\ sched_last.stack_available) =>
        /\ sched_last.ret > 0
        /\ \E t \in TaskSlots :
               /\ Created = {t}
               /\ sched.tasks[t].state = TASK_READY
               /\ sched.ready_queue.tail = t

\* scheduler_create_task returns -1 although no slot holds a live task and
\* the stack could be allocated
CreateRejected ==
    /\ sched_last.op = "create"
    /\ sched_last.live_before = 0
    /\ sched_last.stack_available
    /\ sched_last.ret = -1

\* C16: a task in state TASK_RUNNING is linked into none of the ready, blocked
\* and sleeping queues, and a task linked into the ready queue is in state
\* TASK_READY
C16_RunningUnlinked ==
    \A t \in Tasks :
        /\ sched.tasks[t].state = TASK_RUNNING =>
               \A q \in {"ready_queue", "blocked_queue", "sleeping_queue"} :
                   Occurrences(q, t) = 0
        /\ Occurrences("ready_queue", t) > 0 => sched.tasks[t].state = TASK_READY

\* C2: once scheduler_start has succeeded, after every scheduler operation
\* exactly one task is in state TASK_RUNNING, and it is current_task.
C2_OneRunning ==
    sched.scheduler_running # 0 =>
        /\ scheduler_get_current_task(sched) \in Tasks
        /\ {t \in Tasks : sched.tasks[t].state = TASK_RUNNING}
               = {scheduler_get_current_task(sched)}

\* C3: every task is linked in at most one of the ready, blocked and sleeping
\* queues, and at most once in it.
C3_QueueMembership ==
    \A t \in TaskSlots :
        Occurrences("ready_queue", t) + Occurrences("blocked_queue", t)
            + Occurrences("sleeping_queue", t) <= 1

\* scheduler_create_task never gets as far as the allocation of the stack
CreateStopsBeforeStack ==
    sched_last.op = "create" => ~sched_last.reached

\* C29: scheduler_create_task that cannot obtain stack memory returns -1 and
\* leaves the state and id of every task record, the ready queue and
\* task_count as they were, so the ids find_task_by_id finds are the same
C29_FailedCreateNoSlot ==
    [][(SchedulerCreateTask /\ sched_last'.reached /\ ~sched_last'.stack_available) =>
           /\ sched_last'.ret = -1
           /\ \A t \in TaskSlots :
                  /\ sched'.tasks[t].state = sched.tasks[t].state
                  /\ sched'.tasks[t].task_id = sched.tasks[t].task_id
           /\ sched'.ready_queue = sched.ready_queue
           /\ sched'.task_count = sched.task_count
           /\ \A id \in TaskIds :
                  find_task_by_id(sched', id) = find_task_by_id(sched, id)]_vars

\* the ids of the live tasks: returned by scheduler_create_task or
\* scheduler_create_thread and not terminated
KnownIds(s) == {s.tasks[t].task_id : t \in LiveTasks(s)}

\* the call is terminate, unblock or set_priority
TaskCall == SchedulerTerminateTask \/ SchedulerUnblockTask \/ SchedulerSetPriority

\* C30: scheduler_terminate_task, scheduler_unblock_task and
\* scheduler_set_priority called with an id that is not the id of a live
\* task, 0 included, change nothing in the scheduler, and
\* scheduler_get_priority of such an id returns PRIORITY_LOW
C30_UnknownIdNoOp ==
    [][/\ (TaskCall /\ sched_last'.task_id \notin KnownIds(sched)) => sched' = sched
       /\ (SchedulerGetPriority /\ sched_last'.task_id \notin KnownIds(sched)) =>
              sched_last'.ret = PRIORITY_LOW]_vars

\* the same for the ids other than 0
NonZeroUnknownIdNoOp ==
    [][/\ (TaskCall /\ sched_last'.task_id # 0
                    /\ sched_last'.task_id \notin KnownIds(sched)) => sched' = sched
       /\ (SchedulerGetPriority /\ sched_last'.task_id # 0
                                /\ sched_last'.task_id \notin KnownIds(sched)) =>
              sched_last'.ret = PRIORITY_LOW]_vars

\* scheduler_terminate_task(0) has returned 0
ZeroTerminated ==
    sched_last.op = "terminate" /\ sched_last.task_id = 0 /\ sched_last.ret = 0

\* scheduler_get_priority(0) has returned another priority than PRIORITY_LOW
ZeroHasPriority ==
    sched_last.op = "get_priority" /\ sched_last.task_id = 0
    /\ sched_last.ret # PRIORITY_LOW

\* C38: after any sequence of scheduler_create_task, scheduler_create_thread
\* and scheduler_terminate_task with arbitrary ids, scheduler_get_task_count
\* returns the number of tasks created and not terminated, and never more
\* than MAX_TASKS
C38_TaskCountExact ==
    /\ scheduler_get_task_count(sched) = Cardinality(LiveTasks(sched))
    /\ ~u32_lt(MAX_TASKS, scheduler_get_task_count(sched))

\* what the code does: no task is ever live, and every terminate that
\* returns 0 has taken one more off the count, below zero
TaskCountWraps ==
    /\ LiveTasks(sched) = {}
    /\ scheduler_get_task_count(sched)
           = 0 - Cardinality({t \in TaskSlots : sched.tasks[t].state = TASK_TERMINATED})

\* the nodes linked in the queue q of the scheduler state s, head first
QueueOf(s, q) == Linked(list_get_head(s[q]), TaskNext(s.tasks), MAX_TASKS + 1)

\* the sequence seq without the tasks of `out`
Without(seq, out) == SelectSeq(seq, LAMBDA node : node \notin out)

\* the tasks of the state s in Ready order: the ready queue's tasks in state
\* TASK_READY
ReadyOrder(s) == SelectSeq(QueueOf(s, "ready_queue"),
                           LAMBDA node : s.tasks[node].state = TASK_READY)

\* the queues of the scheduler state s the task t is linked in
QueuesOf(s, t) ==
    {q \in {"ready_queue", "blocked_queue", "sleeping_queue"} :
        \E i \in 1 .. Len(QueueOf(s, q)) : QueueOf(s, q)[i] = t}

\* a task is running in the started scheduler
TaskRuns(s) ==
    /\ s.scheduler_running # 0
    /\ s.current_task \in LiveTasks(s)
    /\ s.tasks[s.current_task].state = TASK_RUNNING

\* a scheduler_create_task or scheduler_create_thread that returns an id
Creates ==
    /\ SchedulerCreateTask \/ SchedulerCreateThread
    /\ sched_last'.ret > 0

\* C31: every id scheduler_create_task or scheduler_create_thread returns is
\* greater than every id issued before it, also after terminations and
\* failed creations: it is greater than the id of every task record, it is
\* not below next_task_id, and next_task_id only ever grows after
\* scheduler_init
C31_IdsIncrease ==
    [][/\ Creates =>
              /\ \A t \in TaskSlots : sched.tasks[t].task_id < sched_last'.ret
              /\ sched_last'.ret >= sched.next_task_id
              /\ sched'.next_task_id > sched_last'.ret
       /\ ~SchedulerInit => sched'.next_task_id >= sched.next_task_id]_vars

\* scheduler_yield is called by the running task while another task is ready
YieldsToOthers ==
    /\ SchedulerYield
    /\ TaskRuns(sched)
    /\ Without(ReadyOrder(sched), {sched.current_task}) # <<>>

\* C34: scheduler_yield by the running task T while other tasks are ready
\* sets T's time_remaining to 0, makes T ready and the last element of the
\* ready queue, makes the first task in Ready order the running task with
\* time_remaining reset to its time_slice, and keeps the order of the other
\* ready tasks
C34_YieldRotates ==
    [][YieldsToOthers =>
           /\ sched'.tasks[sched.current_task].time_remaining = 0
           /\ sched'.tasks[sched.current_task].state = TASK_READY
           /\ sched'.ready_queue.tail = sched.current_task
           /\ sched'.current_task = Head(ReadyOrder(sched))
           /\ sched'.tasks[sched'.current_task].state = TASK_RUNNING
           /\ sched'.tasks[sched'.current_task].time_remaining
                  = sched'.tasks[sched'.current_task].time_slice
           /\ Without(ReadyOrder(sched'), {sched.current_task})
                  = Tail(ReadyOrder(sched))]_vars

\* the changes of a task's state the scheduler may make
Transitions ==
    {<<TASK_READY, TASK_RUNNING>>, <<TASK_RUNNING, TASK_READY>>,
     <<TASK_RUNNING, TASK_BLOCKED>>, <<TASK_BLOCKED, TASK_READY>>,
     <<TASK_RUNNING, TASK_SLEEPING>>}

\* C35: scheduler_block_task(reason) leaves the running task in state
\* TASK_BLOCKED for every reason, linked in the blocked queue and in no other
\* queue; scheduler_unblock_task of a blocked task makes it ready and the
\* last element of the ready queue; and the state of a task only changes
\* along ready -> running, running -> ready, running -> blocked,
\* blocked -> ready, running -> sleeping and any -> terminated
C35_BlockUnblock ==
    [][/\ (SchedulerBlockTask /\ TaskRuns(sched)) =>
              /\ sched'.tasks[sched.current_task].state = TASK_BLOCKED
              /\ QueuesOf(sched', sched.current_task) = {"blocked_queue"}
       /\ \A t \in LiveTasks(sched) :
              (/\ SchedulerUnblockTask
               /\ sched_last'.task_id = sched.tasks[t].task_id
               /\ sched.tasks[t].state = TASK_BLOCKED) =>
                  /\ sched'.tasks[t].state = TASK_READY
                  /\ sched'.ready_queue.tail = t
       /\ \A t \in LiveTasks(sched) :
              \/ SchedulerInit
              \/ sched'.tasks[t].state = sched.tasks[t].state
              \/ sched'.tasks[t].state = TASK_TERMINATED
              \/ <<sched.tasks[t].state, sched'.tasks[t].state>> \in Transitions]_vars

\* C36: scheduler_terminate_task of a live task marks it terminated and
\* unlinks it from its queue, and leaves the state of every other task and
\* the contents, order and count of the three queues restricted to the other
\* tasks as they were
C36_TerminateUnlinks ==
    [][\A t \in LiveTasks(sched) :
           (/\ SchedulerTerminateTask
            /\ sched_last'.task_id = sched.tasks[t].task_id
            /\ find_task_by_id(sched, sched_last'.task_id) = t) =>
               /\ sched'.tasks[t].state = TASK_TERMINATED
               /\ QueuesOf(sched', t) = {}
               /\ \A o \in TaskSlots \ {t} : sched'.tasks[o].state = sched.tasks[o].state
               /\ \A q \in {"ready_queue", "blocked_queue", "sleeping_queue"} :
                      /\ QueueOf(sched', q) = Without(QueueOf(sched, q), {t})
                      /\ sched'[q].count = Len(Without(QueueOf(sched, q), {t}))]_vars

\* C39: once the scheduler is started, scheduler_yield or scheduler_schedule
\* by the current task while another task is ready makes a different task
\* the running one, also after a yield made while no other task was ready
C39_YieldSwitches ==
    [][(/\ SchedulerYield \/ SchedulerSchedule
        /\ sched.scheduler_running # 0
        /\ sched.current_task \in LiveTasks(sched)
        /\ Without(ReadyOrder(sched), {sched.current_task}) # <<>>) =>
           /\ sched'.current_task # sched.current_task
           /\ sched'.current_task \in LiveTasks(sched')
           /\ sched'.tasks[sched'.current_task].state = TASK_RUNNING]_vars

=============================================================================
